---- MODULE Spec2Model ----
(***************************************************************************)
(* photostore-api: a role-based CRUD REST API (Express + Sequelize + JWT). *)
(* The model is the HTTP surface as a state machine: one action per route, *)
(* each action the whole middleware chain and handler of that route.       *)
(* Strings the code inspects character by character (emails, names,        *)
(* passwords) are tuples of one-character strings; strings the code only   *)
(* compares (roles, secrets, issuers, route names) are TLA+ strings.       *)
(***************************************************************************)
EXTENDS Integers, Sequences, FiniteSets, TLC

VARIABLES env, now, db, seq, issued, writes, resp, inflight

vars == <<env, now, db, seq, issued, writes, resp, inflight>>

(***************************************************************************)
(* Bounds of the model.                                                    *)
(***************************************************************************)
\* largest auto-increment value a table hands out
MaxId == 2
\* requests that change the store in one behaviour
MaxWrites == 1
\* the clock runs over 0..MaxTime (days)
MaxTime == 1
\* process.env.JWT_EXPIRES_IN configured as '<TtlDays>d' (the default is '7d')
TtlDays == 1
\* tokens signed by register and login requests in one behaviour
MaxTokens == 1
\* distinct bcrypt salts
MaxSalt == 1

(***************************************************************************)
(* JavaScript values.                                                      *)
(***************************************************************************)
\* null / undefined in an identifier field (real identifiers are >= 1)
NoId == 0
\* undefined where a string is expected (a missing role, an unset variable)
Undefined == "undefined"
\* an absent request part (no params, no body, no credential)
Absent == [absent |-> TRUE]
\* Number(v) of a non-numeric string
NaN == -1

\* obj?.field, Undefined when obj has no such field
Get(obj, field) == IF field \in DOMAIN obj THEN obj[field] ELSE Undefined

\* obj?.field for an identifier field: null and undefined both read as NoId
GetId(obj, field) == IF field \in DOMAIN obj THEN obj[field] ELSE NoId

\* JavaScript truthiness of a string-or-undefined value
Truthy(v) == v # Undefined /\ v # ""

(***************************************************************************)
(* Text as tuples of characters.                                           *)
(***************************************************************************)
LowerSeq ==
    <<"a", "b", "c", "d", "e", "f", "g", "h", "i", "j", "k", "l", "m",
      "n", "o", "p", "q", "r", "s", "t", "u", "v", "w", "x", "y", "z">>
UpperSeq ==
    <<"A", "B", "C", "D", "E", "F", "G", "H", "I", "J", "K", "L", "M",
      "N", "O", "P", "Q", "R", "S", "T", "U", "V", "W", "X", "Y", "Z">>
LowerChars == {LowerSeq[i] : i \in 1..Len(LowerSeq)}
UpperChars == {UpperSeq[i] : i \in 1..Len(UpperSeq)}
DigitChars == {"0", "1", "2", "3", "4", "5", "6", "7", "8", "9"}
\* the symbols of the strong-password pattern, [!@#$%^&*]
SymbolChars == {"!", "@", "#", "$", "%", "^", "&", "*"}

\* String.prototype.toLowerCase on one character
LowerOf(c) ==
    IF c \in UpperChars
    THEN LowerSeq[CHOOSE i \in 1..Len(UpperSeq) : UpperSeq[i] = c]
    ELSE c

toLowerCase(s) == [i \in 1..Len(s) |-> LowerOf(s[i])]

\* String.prototype.toUpperCase on one character
UpperOf(c) ==
    IF c \in LowerChars
    THEN UpperSeq[CHOOSE i \in 1..Len(LowerSeq) : LowerSeq[i] = c]
    ELSE c

toUpperCase(s) == [i \in 1..Len(s) |-> UpperOf(s[i])]

\* the two directions of sortDir
ASC == <<"A", "S", "C">>
DESC == <<"D", "E", "S", "C">>

RECURSIVE trimStart(_)
trimStart(s) == IF s # <<>> /\ Head(s) = " " THEN trimStart(Tail(s)) ELSE s

RECURSIVE trimEnd(_)
trimEnd(s) ==
    IF s # <<>> /\ s[Len(s)] = " " THEN trimEnd(SubSeq(s, 1, Len(s) - 1)) ELSE s

\* String.prototype.trim
trim(s) == trimEnd(trimStart(s))

\* positions of character c in s
Positions(s, c) == {i \in 1..Len(s) : s[i] = c}

\* Number(v) of a path parameter: the integer whose decimal form v is, else NaN
NumberOf(v) ==
    IF \E n \in 0..(MaxId + 1) : ToString(n) = v
    THEN CHOOSE n \in 0..(MaxId + 1) : ToString(n) = v
    ELSE NaN

\* toId: the positive integer a path parameter denotes, or null (NoId)
toId(v) == IF NumberOf(v) > 0 THEN NumberOf(v) ELSE NoId

(***************************************************************************)
(* Joi field rules (validation.js).  A rule is applied to the converted    *)
(* value: Joi trims a .trim() string before it checks it (convert: true).  *)
(***************************************************************************)
\* Joi.string().email(): one "@", a local part, a domain of two or more labels
IsEmail(s) ==
    /\ Cardinality(Positions(s, "@")) = 1
    /\ Positions(s, " ") = {}
    /\ LET at == CHOOSE i \in Positions(s, "@") : TRUE
       IN  /\ at > 1
           /\ \E d \in Positions(s, ".") : d > at + 1 /\ d < Len(s)
           /\ \A d \in Positions(s, ".") : d > at => d + 1 \notin Positions(s, ".")

\* the pattern of strongPassword:
\* /^(?=.*[a-z])(?=.*[A-Z])(?=.*\d)(?=.*[!@#$%^&*])[A-Za-z\d!@#$%^&*]{8,}$/
MatchesStrongPattern(s) ==
    /\ Len(s) >= 8
    /\ \A i \in 1..Len(s) :
          s[i] \in LowerChars \cup UpperChars \cup DigitChars \cup SymbolChars
    /\ \E i \in 1..Len(s) : s[i] \in LowerChars
    /\ \E i \in 1..Len(s) : s[i] \in UpperChars
    /\ \E i \in 1..Len(s) : s[i] \in DigitChars
    /\ \E i \in 1..Len(s) : s[i] \in SymbolChars

\* Joi.number().precision(2) with convert: Math.round(value * 100) / 100.
\* A request price is a whole number of thousandths, a stored one of cents.
RoundToCents(mills) == (mills + 5) \div 10

\* the value a field rule hands on (Joi's conversion of the raw value)
Converted(rule, v) ==
    CASE rule \in {"name", "email", "phone", "address", "productName"} -> trim(v)
      [] rule = "price" -> RoundToCents(v)
      [] rule = "id" -> NumberOf(v)
      [] rule = "sortDir" ->
            IF toUpperCase(v) \in {ASC, DESC} THEN toUpperCase(v) ELSE v
      [] OTHER -> v

\* whether a converted value passes the field rule
Passes(rule, v) ==
    CASE rule = "name" -> Len(v) >= 2 /\ Len(v) <= 60
      [] rule = "email" -> Len(v) <= 254 /\ IsEmail(v)
      [] rule = "strongPassword" ->
            Len(v) >= 8 /\ Len(v) <= 128 /\ MatchesStrongPattern(v)
      [] rule = "string" -> Len(v) >= 1
      [] rule = "address" -> Len(v) <= 120
      [] rule = "phone" -> Len(v) <= 40
      [] rule = "productName" ->
            /\ Len(v) >= 3 /\ Len(v) <= 30
            /\ \A i \in 1..Len(v) : v[i] \in LowerChars \cup UpperChars \cup {" "}
      [] rule = "price" -> v > 0
      [] rule = "stock" -> v >= 0
      [] rule = "id" -> v > 0
      [] rule = "sortField" -> v \in {"orderId", "total", "status", "createdAt"}
      [] rule = "sortDir" -> v \in {ASC, DESC}
      [] OTHER -> FALSE

\* a Joi.object schema: the rule of each known key, the required keys, and
\* the least number of keys (.min(1) of the update schemas)
authCustomerRegister ==
    [rules |-> [name |-> "name", email |-> "email", password |-> "strongPassword",
                address |-> "address", phone |-> "phone"],
     required |-> {"name", "email", "password"}, min |-> 0]

authCustomerLogin ==
    [rules |-> [email |-> "email", password |-> "string"],
     required |-> {"email", "password"}, min |-> 0]

authStaffRegister ==
    [rules |-> [name |-> "name", email |-> "email", password |-> "strongPassword"],
     required |-> {"name", "email", "password"}, min |-> 0]

authStaffLogin == authCustomerLogin

authAdminRegister == authStaffRegister

authAdminLogin == authCustomerLogin

customerCreate ==
    [rules |-> [name |-> "name", email |-> "email", password |-> "strongPassword",
                address |-> "address", phone |-> "phone"],
     required |-> {"name", "email", "password"}, min |-> 0]

customerUpdate ==
    [rules |-> [name |-> "name", email |-> "email", password |-> "strongPassword",
                address |-> "address", phone |-> "phone"],
     required |-> {}, min |-> 1]

productCreate ==
    [rules |-> [name |-> "productName", price |-> "price", stock |-> "stock"],
     required |-> {"name", "price", "stock"}, min |-> 0]

productUpdate ==
    [rules |-> [name |-> "productName", price |-> "price", stock |-> "stock"],
     required |-> {}, min |-> 1]

orderIdParam == [rules |-> [id |-> "id"], required |-> {"id"}, min |-> 0]

orderSortParams ==
    [rules |-> [field |-> "sortField", dir |-> "sortDir"],
     required |-> {"field", "dir"}, min |-> 0]

orderTwoSortParams ==
    [rules |-> [first |-> "sortField", second |-> "sortField"],
     required |-> {"first", "second"}, min |-> 0]

\* schema.validate(data, {abortEarly: false, stripUnknown: true, convert: true}):
\* unknown keys are stripped, known keys converted and checked
JoiValue(schema, data) ==
    [k \in DOMAIN data \cap DOMAIN schema.rules |-> Converted(schema.rules[k], data[k])]

JoiError(schema, data) ==
    LET value == JoiValue(schema, data)
    IN  \/ \E k \in schema.required : k \notin DOMAIN data
        \/ Cardinality(DOMAIN value) < schema.min
        \/ \E k \in DOMAIN value : ~Passes(schema.rules[k], value[k])

\* a validate that hands on Joi's value without normalising the email
validate_NoNormalise(schema, data) ==
    IF JoiError(schema, data)
    THEN [error |-> TRUE, value |-> Absent]
    ELSE [error |-> FALSE, value |-> JoiValue(schema, data)]

\* a validate that lets unknown keys through instead of stripping them
validate_KeepsUnknown(schema, data) ==
    IF JoiError(schema, data)
    THEN [error |-> TRUE, value |-> Absent]
    ELSE LET value == [k \in DOMAIN data |->
                          IF k \in DOMAIN schema.rules
                          THEN Converted(schema.rules[k], data[k])
                          ELSE data[k]]
         IN  [error |-> FALSE,
              value |-> IF "email" \in DOMAIN value /\ value.email # <<>>
                        THEN [value EXCEPT !.email = toLowerCase(trim(value.email))]
                        ELSE value]

\* validate(schema): 400 on a Joi error; otherwise the request part is replaced
\* by the validated value with its email trimmed and lower-cased
validate(schema, data) ==
    IF JoiError(schema, data)
    THEN [error |-> TRUE, value |-> Absent]
    ELSE LET value == JoiValue(schema, data)
         IN  [error |-> FALSE,
              value |-> IF "email" \in DOMAIN value /\ value.email # <<>>
                        THEN [value EXCEPT !.email = toLowerCase(trim(value.email))]
                        ELSE value]

(***************************************************************************)
(* bcrypt.  A hash is a salted one-way image of the plaintext: the digest  *)
(* is an injective function of (salt, plaintext) and is not the plaintext. *)
(***************************************************************************)
Salts == 1..MaxSalt

bcryptHash(plaintext, rounds, salt) ==
    [rounds |-> rounds, salt |-> salt, digest |-> <<salt, plaintext>>]

\* bcrypt.compare: re-hash the candidate with the salt and cost of the hash
bcryptCompare(plaintext, hash) ==
    bcryptHash(plaintext, hash.rounds, hash.salt) = hash

(***************************************************************************)
(* Environment and JWT configuration.  A variable of the environment is    *)
(* "" when it is not set.                                                  *)
(***************************************************************************)
Environments ==
    [JWT_SECRET : {"", "env-secret"},
     JWT_ISSUER : {"", "env-issuer"},
     JWT_AUDIENCE : {"", "env-audience"}]

\* a || b on strings
OrElse(a, b) == IF Truthy(a) THEN a ELSE b

\* routes/auth.js: the constants signToken signs with
JWT_SECRET == OrElse(env.JWT_SECRET, "dev_secret_change_me")
JWT_EXPIRES_IN == TtlDays
JWT_ISSUER == OrElse(env.JWT_ISSUER, "photostore-api")
JWT_AUDIENCE == OrElse(env.JWT_AUDIENCE, "photostore-users")

\* uuidv4(): an identifier no token signed so far carries
uuidv4 == Cardinality(issued) + 1

\* jwt.sign(payload, JWT_SECRET, {algorithm: 'HS512', expiresIn, issuer,
\* audience, jwtid, subject}) at time t.  A token is its header algorithm,
\* the key its signature was made with, and its payload.
jwtSign(payload, subject, jwtid, t) ==
    [alg |-> "HS512",
     key |-> JWT_SECRET,
     payload |-> payload @@
        [iat |-> t, exp |-> t + JWT_EXPIRES_IN, iss |-> JWT_ISSUER,
         aud |-> JWT_AUDIENCE, jti |-> jwtid,
         sub |-> IF subject # NoId THEN ToString(subject) ELSE Undefined]]

\* a signer whose jwtid is a constant
signToken_ConstantJwtid(payload, subject) == jwtSign(payload, subject, 1, now)

\* signToken(payload, {subject})
signToken(payload, subject) == jwtSign(payload, subject, uuidv4, now)

\* a verifier that accepts any signing algorithm (no `algorithms` option)
jwtVerify_AnyAlgorithm(token, secret, issuer, audience, algorithms, t) ==
    /\ token.alg # "none"
    /\ token.key = secret
    /\ "exp" \in DOMAIN token.payload => t < token.payload.exp
    /\ audience # Undefined => Get(token.payload, "aud") = audience
    /\ issuer # Undefined => Get(token.payload, "iss") = issuer

\* a verifier called with ignoreExpiration: true
jwtVerify_IgnoreExpiration(token, secret, issuer, audience, algorithms, t) ==
    /\ token.alg \in algorithms
    /\ token.alg # "none"
    /\ token.key = secret
    /\ audience # Undefined => Get(token.payload, "aud") = audience
    /\ issuer # Undefined => Get(token.payload, "iss") = issuer

\* jwt.verify(token, secret, {issuer, audience, algorithms}) at time t:
\* whether it returns the payload (TRUE) or throws (FALSE)
jwtVerify(token, secret, issuer, audience, algorithms, t) ==
    /\ token.alg \in algorithms
    /\ token.alg # "none"
    /\ token.key = secret
    /\ "exp" \in DOMAIN token.payload => t < token.payload.exp
    /\ audience # Undefined => Get(token.payload, "aud") = audience
    /\ issuer # Undefined => Get(token.payload, "iss") = issuer

(***************************************************************************)
(* Credentials of a request: the Authorization header (scheme and token)   *)
(* and the x-auth-token header, each possibly absent.                      *)
(***************************************************************************)
NoCreds == [authorization |-> Absent, xAuthToken |-> Absent]
Bearer(t) == [authorization |-> [scheme |-> "Bearer", token |-> t], xAuthToken |-> Absent]
Basic(t) == [authorization |-> [scheme |-> "Basic", token |-> t], xAuthToken |-> Absent]
XAuth(t) == [authorization |-> Absent, xAuthToken |-> t]

\* middleware/auth.js: the token the middleware reads from the headers
TokenOf(creds) ==
    IF creds.authorization # Absent /\ creds.authorization.scheme = "Bearer"
    THEN creds.authorization.token
    ELSE creds.xAuthToken

\* the secret and options the middleware verifies with
\* a verifier that knows no default secret
VerifySecret_NoDefault == env.JWT_SECRET

VerifySecret == OrElse(OrElse(env.JWT_SECRET, env.JWT_SECRET), "dev_secret_change_me")
VerifyIssuer == OrElse(env.JWT_ISSUER, Undefined)
VerifyAudience == OrElse(env.JWT_AUDIENCE, Undefined)

\* an auth middleware that also looks the customer of the token up
auth_ChecksRow(creds) ==
    LET token == TokenOf(creds)
        user == IF "user" \in DOMAIN token.payload
                THEN token.payload.user
                ELSE token.payload
    IN  IF token = Absent
        THEN [status |-> 401, msg |-> "No token supplied, authorization denied",
              user |-> Absent]
        ELSE IF /\ jwtVerify(token, VerifySecret, VerifyIssuer, VerifyAudience,
                             {"HS512"}, now)
                /\ GetId(user, "custId") # NoId
                      => \E r \in db.Customer : r.custId = user.custId
        THEN [status |-> 0, msg |-> "", user |-> user]
        ELSE [status |-> 401, msg |-> "Token is not valid", user |-> Absent]

\* middleware/auth.js: status 0 stands for next(); user is req.user
auth(creds) ==
    LET token == TokenOf(creds)
    IN  IF token = Absent
        THEN [status |-> 401, msg |-> "No token supplied, authorization denied",
              user |-> Absent]
        ELSE IF jwtVerify(token, VerifySecret, VerifyIssuer, VerifyAudience,
                          {"HS512"}, now)
        THEN [status |-> 0, msg |-> "",
              user |-> IF "user" \in DOMAIN token.payload
                       THEN token.payload.user
                       ELSE token.payload]
        ELSE [status |-> 401, msg |-> "Token is not valid", user |-> Absent]

(***************************************************************************)
(* Access-control predicates.  Each returns 0 for next() or the status it  *)
(* answers with.                                                           *)
(***************************************************************************)
\* user?.role ?? user?.user?.role
RoleNullish(user) ==
    IF Get(user, "role") # Undefined
    THEN user.role
    ELSE IF "user" \in DOMAIN user THEN Get(user.user, "role") ELSE Undefined

\* user?.role || user?.user?.role
RoleFalsy(user) ==
    IF Truthy(Get(user, "role"))
    THEN user.role
    ELSE IF "user" \in DOMAIN user THEN Get(user.user, "role") ELSE Undefined

\* user?.custId ?? user?.user?.custId
CustIdOf(user) ==
    IF GetId(user, "custId") # NoId
    THEN user.custId
    ELSE IF "user" \in DOMAIN user THEN GetId(user.user, "custId") ELSE NoId

\* a staff guard that only asks for some role
staff_AnyRole(user) ==
    LET role == RoleNullish(user)
    IN  IF ~Truthy(role) THEN 401 ELSE 0

\* middleware/staff.js
staff(user) ==
    LET role == RoleNullish(user)
    IN  IF ~Truthy(role) THEN 401
        ELSE IF role = "staff" \/ role = "admin" THEN 0
        ELSE 403

\* middleware/admin.js
admin(user) ==
    LET role == RoleNullish(user)
    IN  IF ~Truthy(role) THEN 401
        ELSE IF role # "admin" THEN 403
        ELSE 0

\* a guard that forgets the self-access branch
allowSelfOrRole_RoleOnly(roles, idParam, user) ==
    LET role == RoleFalsy(user)
    IN  IF Truthy(role) /\ role \in roles THEN 0 ELSE 403

\* routes/customers.js: allowSelfOrRole(...roles)
allowSelfOrRole(roles, idParam, user) ==
    LET reqId == toId(idParam)
        role == RoleFalsy(user)
        custId == CustIdOf(user)
    IN  IF reqId # NoId /\ custId # NoId /\ reqId = custId THEN 0
        ELSE IF Truthy(role) /\ role \in roles THEN 0
        ELSE 403

(***************************************************************************)
(* The store: one table per Sequelize model (models/index.js), each a set  *)
(* of rows, and the last auto-increment value of each table.               *)
(***************************************************************************)
Variants == {"customer", "staff", "admin"}

ModelOf(v) ==
    CASE v = "customer" -> "Customer" [] v = "staff" -> "Staff" [] v = "admin" -> "Admin"

\* the primary key column of a model
Pk(m) ==
    CASE m = "Customer" -> "custId" [] m = "Staff" -> "staffId"
      [] m = "Admin" -> "adminId" [] m = "Product" -> "prodId"
      [] m = "Order" -> "orderId"

\* the orders table is filled outside this API (it has no create route);
\* custId is a foreign key, so every order names a stored customer
SeedOrders ==
    {[orderId |-> 1, custId |-> 1, status |-> "pending", total |-> 1999],
     [orderId |-> 2, custId |-> 1, status |-> "paid", total |-> 500]}

\* a lookup over the tables of all three variants
findOne_AnyVariant(m, email) ==
    {r \in db.Customer \cup db.Staff \cup db.Admin : r.email = email}

\* Model.findOne({where: {email}})
findOne(m, email) == {r \in db[m] : r.email = email}

\* Model.findByPk(id)
findByPk(m, id) == {r \in db[m] : r[Pk(m)] = id}

\* the orders in which a query may return a set of rows
Arrangements(rows) ==
    {q \in [1..Cardinality(rows) -> rows] :
        \A i, j \in 1..Cardinality(rows) : i # j => q[i] # q[j]}

\* the columns of a table: the attributes of sequelize.define plus the
\* createdAt and updatedAt that define adds when timestamps are not turned off
Columns(m) ==
    CASE m = "Product" ->
            {"prodId", "name", "price", "stock", "createdAt", "updatedAt"}
      [] m = "Order" ->
            {"orderId", "custId", "status", "total", "createdAt", "updatedAt"}

\* the INTEGER and DECIMAL columns
NumberColumns == {"prodId", "price", "stock", "orderId", "custId", "total"}

\* ORDER BY: whether row a must come before row b.  Number columns are
\* compared; the collation of a text column and the clock behind a
\* timestamp column are the database's, so such a column leaves the order
\* of two rows open
RECURSIVE Precedes(_, _, _)
Precedes(a, b, order) ==
    IF order = <<>> THEN FALSE
    ELSE LET col == Head(order)[1]
             direction == Head(order)[2]
         IN  IF col \notin NumberColumns THEN FALSE
             ELSE IF a[col] = b[col] THEN Precedes(a, b, Tail(order))
             ELSE IF direction = "DESC" THEN a[col] > b[col]
             ELSE a[col] < b[col]

\* Model.findAll({order}): the query fails when it names a column the table
\* does not have; otherwise it may return any arrangement of the rows that
\* ORDER BY allows
findAllOrdered(m, order) ==
    IF \E i \in 1..Len(order) : order[i][1] \notin Columns(m)
    THEN {}
    ELSE {q \in Arrangements(db[m]) :
             \A i, j \in 1..Len(q) : i < j => ~Precedes(q[j], q[i], order)}

\* the unique index on email (unique: true): whether giving `email` to the
\* row with key `id` would collide with another row of the table
UniqueViolation(m, id, email) ==
    \E r \in db[m] : r[Pk(m)] # id /\ r.email = email

\* a table that hands out the lowest key no row holds
NewPrincipal_LowestFree(m, name, email, hashed, role) ==
    (Pk(m) :> CHOOSE i \in 1..(seq[m] + 1) :
                  /\ \A r \in db[m] : r[Pk(m)] # i
                  /\ \A j \in 1..(i - 1) : \E r \in db[m] : r[Pk(m)] = j) @@
    [name |-> name, email |-> email, password |-> hashed, role |-> role]

\* Customer/Staff/Admin.create({name, email, password, role}): the new row
NewPrincipal(m, name, email, hashed, role) ==
    (Pk(m) :> (seq[m] + 1)) @@
    [name |-> name, email |-> email, password |-> hashed, role |-> role]

\* attributes: {exclude: ['password']}, and `delete out.password`
WithoutPassword(row) == [k \in DOMAIN row \ {"password"} |-> row[k]]

RECURSIVE SortByPk(_, _)
\* order: [[pk, 'ASC']]
SortByPk(m, rows) ==
    IF rows = {} THEN <<>>
    ELSE LET first == CHOOSE r \in rows : \A o \in rows : r[Pk(m)] <= o[Pk(m)]
         IN  <<first>> \o SortByPk(m, rows \ {first})

(***************************************************************************)
(* Responses.  resp is the request being answered, as the chain read it,   *)
(* and its answer: the status, the body (out), req.user as the auth        *)
(* middleware left it, the stage that answered and the store operations    *)
(* issued.  Between two requests resp is NoExchange.                       *)
(***************************************************************************)
Reply(route, creds, id, body, status, out, user, stage, ops) ==
    [route |-> route, creds |-> creds, id |-> id, body |-> body,
     status |-> status, out |-> out, user |-> user, stage |-> stage, ops |-> ops]

\* what an operation hands to its action: the answer and the store after it
Outcome(r, newDb, newSeq, newIssued) ==
    [resp |-> r, db |-> newDb, seq |-> newSeq, issued |-> newIssued]

Unchanged(r) == Outcome(r, db, seq, issued)

\* as400: the validation error body
as400 == [msg |-> "Validation failed"]

(***************************************************************************)
(* routes/auth.js                                                          *)
(***************************************************************************)
RegisterSchema(v) ==
    CASE v = "customer" -> authCustomerRegister
      [] v = "staff" -> authStaffRegister
      [] v = "admin" -> authAdminRegister

LoginSchema(v) ==
    CASE v = "customer" -> authCustomerLogin
      [] v = "staff" -> authStaffLogin
      [] v = "admin" -> authAdminLogin

\* the user object a register or login route builds for the token
UserClaims(v, row, role) ==
    [custId |-> IF v = "customer" THEN row.custId ELSE NoId,
     staffId |-> IF v = "staff" THEN row.staffId ELSE NoId,
     adminId |-> IF v = "admin" THEN row.adminId ELSE NoId,
     name |-> row.name, email |-> row.email, role |-> role]

\* the role literal of the customer routes, copied to the other two logins
LoginRole_CustomerEverywhere(v, row) == "customer"

\* the role a login route puts in the token
LoginRole(v, row) ==
    CASE v = "customer" -> OrElse(row.role, "customer")
      [] v = "staff" -> "staff"
      [] v = "admin" -> OrElse(row.role, "admin")

AlreadyRegistered(v) ==
    IF v = "admin" THEN "Admin already registered" ELSE "User already registered"

\* POST /auth/<v>/register
register(v, body, salt) ==
    LET m == ModelOf(v)
        route == "POST /auth/" \o v \o "/register"
        checked == validate(RegisterSchema(v), body)
        value == checked.value
        row == NewPrincipal(m, value.name, value.email,
                            bcryptHash(value.password, 10, salt), v)
        user == UserClaims(v, row, v)
        token == signToken([user |-> user], row[Pk(m)])
    IN  IF checked.error
        THEN Unchanged(Reply(route, NoCreds, "", body, 400, as400, Absent,
                             "validate", <<>>))
        ELSE IF findOne(m, value.email) # {}
        THEN Unchanged(Reply(route, NoCreds, "", body, 409,
                             [errors |-> <<[msg |-> AlreadyRegistered(v)]>>], Absent,
                             "handler", <<"findOne">>))
        ELSE Outcome(Reply(route, NoCreds, "", body, 201,
                           [token |-> token, user |-> user], Absent,
                           "handler", <<"findOne", "create">>),
                     [db EXCEPT ![m] = @ \cup {row}],
                     [seq EXCEPT ![m] = @ + 1],
                     issued \cup {token})

\* a login that tells an unknown email from a wrong password
login_TellsUnknownEmail(v, body) ==
    LET m == ModelOf(v)
        route == "POST /auth/" \o v \o "/login"
        checked == validate(LoginSchema(v), body)
        value == checked.value
        found == findOne(m, value.email)
        row == CHOOSE r \in found : TRUE
        user == UserClaims(v, row, LoginRole(v, row))
        token == signToken([user |-> user], row[Pk(m)])
    IN  IF checked.error
        THEN Unchanged(Reply(route, NoCreds, "", body, 400, as400, Absent,
                             "validate", <<>>))
        ELSE IF found = {}
        THEN Unchanged(Reply(route, NoCreds, "", body, 404,
                             [errors |-> <<[msg |-> "User not found"]>>],
                             Absent, "handler", <<"findOne">>))
        ELSE IF ~bcryptCompare(value.password, row.password)
        THEN Unchanged(Reply(route, NoCreds, "", body, 400,
                             [errors |-> <<[msg |-> "Invalid Credentials"]>>],
                             Absent, "handler", <<"findOne">>))
        ELSE Outcome(Reply(route, NoCreds, "", body, 200,
                           [token |-> token, user |-> user], Absent,
                           "handler", <<"findOne">>),
                     db, seq, issued \cup {token})

\* POST /auth/<v>/login
login(v, body) ==
    LET m == ModelOf(v)
        route == "POST /auth/" \o v \o "/login"
        checked == validate(LoginSchema(v), body)
        value == checked.value
        found == findOne(m, value.email)
        row == CHOOSE r \in found : TRUE
        user == UserClaims(v, row, LoginRole(v, row))
        token == signToken([user |-> user], row[Pk(m)])
        invalid == [errors |-> <<[msg |-> "Invalid Credentials"]>>]
    IN  IF checked.error
        THEN Unchanged(Reply(route, NoCreds, "", body, 400, as400, Absent,
                             "validate", <<>>))
        ELSE IF found = {}
        THEN Unchanged(Reply(route, NoCreds, "", body, 400, invalid, Absent,
                             "handler", <<"findOne">>))
        ELSE IF ~bcryptCompare(value.password, row.password)
        THEN Unchanged(Reply(route, NoCreds, "", body, 400, invalid, Absent,
                             "handler", <<"findOne">>))
        ELSE Outcome(Reply(route, NoCreds, "", body, 200,
                           [token |-> token, user |-> user], Absent,
                           "handler", <<"findOne">>),
                     db, seq, issued \cup {token})

(***************************************************************************)
(* A database as earlier runs of the API leave it: every row is one that   *)
(* a register or create request wrote, every token one that the register   *)
(* request of its principal signed.                                        *)
(***************************************************************************)
SeedRow(m, id, email, role) ==
    (Pk(m) :> id) @@
    [name |-> <<"A", "d", "a">>, email |-> email,
     password |-> bcryptHash(<<"S", "t", "r", "0", "n", "g", "!", "P">>, 10, 1),
     role |-> role]

SeedEmailA == <<"a", "d", "a", "@", "x", ".", "c", "o">>
SeedEmailB == <<"b", "o", "@", "x", ".", "c", "o">>

SeedDb ==
    [Customer |-> {SeedRow("Customer", 1, SeedEmailA, "customer")},
     Staff |-> {SeedRow("Staff", 1, SeedEmailB, "staff")},
     Admin |-> {SeedRow("Admin", 1, SeedEmailA, "admin")},
     Product |-> {[prodId |-> 1, name |-> <<"L", "e", "n", "s">>,
                   price |-> 19999, stock |-> 5]},
     Order |-> SeedOrders]

SeedToken(v, jwtid) ==
    LET row == CHOOSE r \in SeedDb[ModelOf(v)] : r[Pk(ModelOf(v))] = 1
    IN  jwtSign([user |-> UserClaims(v, row, v)], 1, jwtid, 0)

SeedTokens == {SeedToken("customer", 1), SeedToken("staff", 2), SeedToken("admin", 3)}

(***************************************************************************)
(* Shared answers of the middleware chain.                                 *)
(***************************************************************************)
\* the answer of a chain that the auth middleware ended
Denied401(route, creds, a) ==
    Unchanged(Reply(route, creds, "", Absent, 401, [msg |-> a.msg], Absent,
                    "auth", <<>>))

\* the body staff() and admin() answer with
PolicyMsg(policy, status) ==
    IF status = 401 THEN "Unauthenticated: user missing"
    ELSE IF policy = "staff" THEN "Staff or admin only"
    ELSE IF policy = "admin" THEN "Access denied"
    ELSE "Forbidden"

\* the answer of a chain that a policy predicate ended
DeniedByPolicy(route, creds, id, user, policy, status) ==
    Unchanged(Reply(route, creds, id, Absent, status,
                    [msg |-> PolicyMsg(policy, status)], user, "policy", <<>>))

ServerError == [msg |-> "Server error"]

(***************************************************************************)
(* routes/customers.js                                                     *)
(***************************************************************************)
\* GET /customers: [auth, staff]
customersList(creds) ==
    LET route == "GET /customers"
        a == auth(creds)
    IN  IF a.status # 0 THEN Denied401(route, creds, a)
        ELSE IF staff(a.user) # 0
        THEN DeniedByPolicy(route, creds, "", a.user, "staff", staff(a.user))
        ELSE Unchanged(Reply(route, creds, "", Absent, 200,
                [rows |-> SortByPk("Customer",
                                   {WithoutPassword(r) : r \in db.Customer})],
                a.user, "handler", <<"findAll">>))

\* GET /customers/:id: auth, allowSelfOrRole('staff', 'admin')
customersGet(creds, idParam) ==
    LET route == "GET /customers/:id"
        a == auth(creds)
        allow == allowSelfOrRole({"staff", "admin"}, idParam, a.user)
        id == toId(idParam)
        found == findByPk("Customer", id)
    IN  IF a.status # 0 THEN Denied401(route, creds, a)
        ELSE IF allow # 0
        THEN DeniedByPolicy(route, creds, idParam, a.user, "self", allow)
        ELSE IF id = NoId
        THEN Unchanged(Reply(route, creds, idParam, Absent, 400,
                             [msg |-> "Invalid id"], a.user, "handler", <<>>))
        ELSE IF found = {}
        THEN Unchanged(Reply(route, creds, idParam, Absent, 404,
                             [msg |-> "Customer not found"], a.user, "handler",
                             <<"findByPk">>))
        ELSE Unchanged(Reply(route, creds, idParam, Absent, 200,
                             WithoutPassword(CHOOSE r \in found : TRUE),
                             a.user, "handler", <<"findByPk">>))

\* created.toJSON() sent as it is
CreatedJson_Raw(row) == row

\* created.toJSON() followed by `delete out.password`
CreatedJson(row) == WithoutPassword(row)

\* POST /customers: [auth, staff], validate(customerCreate)
customersCreate(creds, body, salt) ==
    LET route == "POST /customers"
        a == auth(creds)
        checked == validate(customerCreate, body)
        value == checked.value
        row == NewPrincipal("Customer", value.name, value.email,
                            bcryptHash(value.password, 10, salt), "customer")
    IN  IF a.status # 0 THEN Denied401(route, creds, a)
        ELSE IF staff(a.user) # 0
        THEN DeniedByPolicy(route, creds, "", a.user, "staff", staff(a.user))
        ELSE IF checked.error
        THEN Unchanged(Reply(route, creds, "", body, 400, as400, a.user,
                             "validate", <<>>))
        ELSE IF findOne("Customer", value.email) # {}
        THEN Unchanged(Reply(route, creds, "", body, 409,
                             [msg |-> "Email already registered"], a.user,
                             "handler", <<"findOne">>))
        ELSE Outcome(Reply(route, creds, "", body, 201, CreatedJson(row),
                           a.user, "handler", <<"findOne", "create">>),
                     [db EXCEPT !.Customer = @ \cup {row}],
                     [seq EXCEPT !.Customer = @ + 1],
                     issued)

\* an update that writes the password as it came: a digest that is the
\* plaintext
UpdateValues_Plain(value, salt) ==
    [k \in DOMAIN value \cap {"name", "email", "password", "role"} |->
        IF k = "password"
        THEN [rounds |-> 0, salt |-> 0, digest |-> value.password]
        ELSE value[k]]

\* the columns Customer.update writes: the validated keys that are attributes
\* of the model, the password replaced by its hash
UpdateValues(value, salt) ==
    [k \in DOMAIN value \cap {"name", "email", "password", "role"} |->
        IF k = "password" THEN bcryptHash(value.password, 10, salt) ELSE value[k]]

\* the row after Customer.update(values)
Updated(row, values) ==
    [k \in DOMAIN row |-> IF k \in DOMAIN values THEN values[k] ELSE row[k]]

\* a PUT /customers/:id that tells the caller the email is taken
customersUpdate_Conflict409(creds, idParam, body, salt) ==
    LET route == "PUT /customers/:id"
        a == auth(creds)
        allow == allowSelfOrRole({"staff", "admin"}, idParam, a.user)
        checked == validate(customerUpdate, body)
        id == toId(idParam)
        values == UpdateValues(checked.value, salt)
        found == findByPk("Customer", id)
        old == CHOOSE r \in found : TRUE
        fresh == Updated(old, values)
    IN  IF a.status # 0 THEN Denied401(route, creds, a)
        ELSE IF allow # 0
        THEN DeniedByPolicy(route, creds, idParam, a.user, "self", allow)
        ELSE IF checked.error
        THEN Unchanged(Reply(route, creds, idParam, body, 400, as400, a.user,
                             "validate", <<>>))
        ELSE IF id = NoId
        THEN Unchanged(Reply(route, creds, idParam, body, 400,
                             [msg |-> "Invalid id"], a.user, "handler", <<>>))
        ELSE IF found = {}
        THEN Unchanged(Reply(route, creds, idParam, body, 404,
                             [msg |-> "Customer not found"], a.user, "handler",
                             <<"update">>))
        ELSE IF "email" \in DOMAIN values
                /\ UniqueViolation("Customer", id, values.email)
        THEN Unchanged(Reply(route, creds, idParam, body, 409,
                             [msg |-> "Email already registered"],
                             a.user, "handler", <<"update">>))
        ELSE Outcome(Reply(route, creds, idParam, body, 200,
                           WithoutPassword(fresh), a.user, "handler",
                           <<"update", "findByPk">>),
                     [db EXCEPT !.Customer = (@ \ {old}) \cup {fresh}],
                     seq, issued)

\* PUT /customers/:id: auth, allowSelfOrRole('staff', 'admin'),
\* validate(customerUpdate)
customersUpdate(creds, idParam, body, salt) ==
    LET route == "PUT /customers/:id"
        a == auth(creds)
        allow == allowSelfOrRole({"staff", "admin"}, idParam, a.user)
        checked == validate(customerUpdate, body)
        id == toId(idParam)
        values == UpdateValues(checked.value, salt)
        found == findByPk("Customer", id)
        old == CHOOSE r \in found : TRUE
        fresh == Updated(old, values)
    IN  IF a.status # 0 THEN Denied401(route, creds, a)
        ELSE IF allow # 0
        THEN DeniedByPolicy(route, creds, idParam, a.user, "self", allow)
        ELSE IF checked.error
        THEN Unchanged(Reply(route, creds, idParam, body, 400, as400, a.user,
                             "validate", <<>>))
        ELSE IF id = NoId
        THEN Unchanged(Reply(route, creds, idParam, body, 400,
                             [msg |-> "Invalid id"], a.user, "handler", <<>>))
        ELSE IF found = {}
        THEN Unchanged(Reply(route, creds, idParam, body, 404,
                             [msg |-> "Customer not found"], a.user, "handler",
                             <<"update">>))
        ELSE IF "email" \in DOMAIN values
                /\ UniqueViolation("Customer", id, values.email)
        THEN Unchanged(Reply(route, creds, idParam, body, 500, ServerError,
                             a.user, "handler", <<"update">>))
        ELSE Outcome(Reply(route, creds, idParam, body, 200,
                           WithoutPassword(fresh), a.user, "handler",
                           <<"update", "findByPk">>),
                     [db EXCEPT !.Customer = (@ \ {old}) \cup {fresh}],
                     seq, issued)

\* the tables after Model.destroy({where: {<pk>: id}}) removed the rows in
\* found.  Customer.hasMany(Order, {foreignKey: 'custId'}) makes custId a
\* foreign key; as the column is allowNull: false and the association names
\* no onDelete, Sequelize declares it ON DELETE CASCADE, so the orders of a
\* deleted customer go with it
Destroyed(m, found) ==
    IF m = "Customer"
    THEN [db EXCEPT !.Customer = @ \ found,
                    !.Order = {o \in @ : \A c \in found : o.custId # c.custId}]
    ELSE [db EXCEPT ![m] = @ \ found]

\* DELETE /<table>/:id of customers and products: [auth, admin], toId
destroyById(m, route, notFound, creds, idParam) ==
    LET a == auth(creds)
        id == toId(idParam)
        found == findByPk(m, id)
    IN  IF a.status # 0 THEN Denied401(route, creds, a)
        ELSE IF admin(a.user) # 0
        THEN DeniedByPolicy(route, creds, "", a.user, "admin", admin(a.user))
        ELSE IF id = NoId
        THEN Unchanged(Reply(route, creds, idParam, Absent, 400,
                             [msg |-> "Invalid id"], a.user, "handler", <<>>))
        ELSE IF found = {}
        THEN Unchanged(Reply(route, creds, idParam, Absent, 404,
                             [msg |-> notFound], a.user, "handler",
                             <<"destroy">>))
        ELSE Outcome(Reply(route, creds, idParam, Absent, 204, Absent, a.user,
                           "handler", <<"destroy">>),
                     Destroyed(m, found), seq, issued)

\* DELETE /customers/:id
customersDelete(creds, idParam) ==
    destroyById("Customer", "DELETE /customers/:id", "Customer not found",
                creds, idParam)

(***************************************************************************)
(* routes/products.js                                                      *)
(***************************************************************************)
\* GET /products: [auth, staff]
productsList(creds) ==
    LET route == "GET /products"
        a == auth(creds)
    IN  IF a.status # 0 THEN Denied401(route, creds, a)
        ELSE IF staff(a.user) # 0
        THEN DeniedByPolicy(route, creds, "", a.user, "staff", staff(a.user))
        ELSE Unchanged(Reply(route, creds, "", Absent, 200,
                             [rows |-> SortByPk("Product", db.Product)],
                             a.user, "handler", <<"findAll">>))

\* GET /products/:id: no middleware
productsGet(idParam) ==
    LET route == "GET /products/:id"
        id == toId(idParam)
        found == findByPk("Product", id)
    IN  IF id = NoId
        THEN Unchanged(Reply(route, NoCreds, idParam, Absent, 400,
                             [msg |-> "Invalid id"], Absent, "handler", <<>>))
        ELSE IF found = {}
        THEN Unchanged(Reply(route, NoCreds, idParam, Absent, 404,
                             [msg |-> "Product not found"], Absent, "handler",
                             <<"findByPk">>))
        ELSE Unchanged(Reply(route, NoCreds, idParam, Absent, 200,
                             CHOOSE r \in found : TRUE, Absent, "handler",
                             <<"findByPk">>))

\* a POST /products whose chain validates the body before the admin guard
productsCreate_ValidatesFirst(creds, body) ==
    LET route == "POST /products"
        a == auth(creds)
        checked == validate(productCreate, body)
        row == [prodId |-> seq.Product + 1] @@ checked.value
    IN  IF a.status # 0 THEN Denied401(route, creds, a)
        ELSE IF checked.error
        THEN Unchanged(Reply(route, creds, "", body, 400, as400, a.user,
                             "validate", <<>>))
        ELSE IF admin(a.user) # 0
        THEN DeniedByPolicy(route, creds, "", a.user, "admin", admin(a.user))
        ELSE Outcome(Reply(route, creds, "", body, 201, row, a.user,
                           "handler", <<"create">>),
                     [db EXCEPT !.Product = @ \cup {row}],
                     [seq EXCEPT !.Product = @ + 1],
                     issued)

\* POST /products: [auth, admin], validate(productCreate)
productsCreate(creds, body) ==
    LET route == "POST /products"
        a == auth(creds)
        checked == validate(productCreate, body)
        row == [prodId |-> seq.Product + 1] @@ checked.value
    IN  IF a.status # 0 THEN Denied401(route, creds, a)
        ELSE IF admin(a.user) # 0
        THEN DeniedByPolicy(route, creds, "", a.user, "admin", admin(a.user))
        ELSE IF checked.error
        THEN Unchanged(Reply(route, creds, "", body, 400, as400, a.user,
                             "validate", <<>>))
        ELSE Outcome(Reply(route, creds, "", body, 201, row, a.user,
                           "handler", <<"create">>),
                     [db EXCEPT !.Product = @ \cup {row}],
                     [seq EXCEPT !.Product = @ + 1],
                     issued)

\* PUT /products/:id: [auth, admin], validate(productUpdate)
productsUpdate(creds, idParam, body) ==
    LET route == "PUT /products/:id"
        a == auth(creds)
        checked == validate(productUpdate, body)
        id == toId(idParam)
        found == findByPk("Product", id)
        old == CHOOSE r \in found : TRUE
        fresh == Updated(old, checked.value)
    IN  IF a.status # 0 THEN Denied401(route, creds, a)
        ELSE IF admin(a.user) # 0
        THEN DeniedByPolicy(route, creds, "", a.user, "admin", admin(a.user))
        ELSE IF checked.error
        THEN Unchanged(Reply(route, creds, "", body, 400, as400, a.user,
                             "validate", <<>>))
        ELSE IF id = NoId
        THEN Unchanged(Reply(route, creds, idParam, body, 400,
                             [msg |-> "Invalid id"], a.user, "handler", <<>>))
        ELSE IF found = {}
        THEN Unchanged(Reply(route, creds, idParam, body, 404,
                             [msg |-> "Product not found"], a.user, "handler",
                             <<"update">>))
        ELSE Outcome(Reply(route, creds, idParam, body, 200, fresh, a.user,
                           "handler", <<"update", "findByPk">>),
                     [db EXCEPT !.Product = (@ \ {old}) \cup {fresh}],
                     seq, issued)

\* DELETE /products/:id
\* a delete that answers as the route does and leaves the row in place
productsDelete_KeepsRow(creds, idParam) ==
    [destroyById("Product", "DELETE /products/:id", "Product not found",
                 creds, idParam) EXCEPT !.db = db]

\* a delete that looks the row up before it destroys it
productsDelete_FindsFirst(creds, idParam) ==
    LET o == destroyById("Product", "DELETE /products/:id", "Product not found",
                         creds, idParam)
    IN  IF o.resp.status = 204
        THEN [o EXCEPT !.resp.ops = <<"findByPk", "destroy">>]
        ELSE o

productsDelete(creds, idParam) ==
    destroyById("Product", "DELETE /products/:id", "Product not found",
                creds, idParam)

\* const direction = dir.toUpperCase() === 'DESC' ? 'DESC' : 'ASC'
Direction(dir) == IF toUpperCase(dir) = DESC THEN "DESC" ELSE "ASC"

\* the ordering clause of the one-field routes, [[field, direction]]
OneField(params) == <<(<<params.field, Direction(params.dir)>>)>>

\* the ordering clause of the two-field routes,
\* [[first, 'ASC'], [second, 'ASC']]
TwoFields(params) == <<(<<params.first, "ASC">>), (<<params.second, "ASC">>)>>

\* the handler of a sort route: findAll with the ordering clause, 200 with
\* the rows, 500 when the query throws
sorted(m, route, creds, params, user, order, arrangement) ==
    IF findAllOrdered(m, order) = {}
    THEN Unchanged(Reply(route, creds, "", params, 500, ServerError, user,
                         "handler", <<"findAll">>))
    ELSE Unchanged(Reply(route, creds, "", params, 200, [rows |-> arrangement],
                         user, "handler", <<"findAll">>))

\* a sort route that hands its parameters to the query as they came
productsSort_Unvalidated(params, arrangement) ==
    sorted("Product", "GET /products/o/:field/:dir", NoCreds, params, Absent,
           OneField(params), arrangement)

\* GET /products/o/:field/:dir: validate(orderSortParams, params), no auth
productsSort(params, arrangement) ==
    LET route == "GET /products/o/:field/:dir"
        checked == validate(orderSortParams, params)
    IN  IF checked.error
        THEN Unchanged(Reply(route, NoCreds, "", params, 400, as400, Absent,
                             "validate", <<>>))
        ELSE sorted("Product", route, NoCreds, params, Absent,
                    OneField(checked.value), arrangement)

\* GET /products/sort/two/:first/:second: validate(orderTwoSortParams, params)
productsSortTwo(params, arrangement) ==
    LET route == "GET /products/sort/two/:first/:second"
        checked == validate(orderTwoSortParams, params)
    IN  IF checked.error
        THEN Unchanged(Reply(route, NoCreds, "", params, 400, as400, Absent,
                             "validate", <<>>))
        ELSE sorted("Product", route, NoCreds, params, Absent,
                    TwoFields(checked.value), arrangement)

(***************************************************************************)
(* routes/orders.js                                                        *)
(***************************************************************************)
\* GET /orders: [auth, staff]; Order.findAll() names no ordering
ordersList(creds, arrangement) ==
    LET route == "GET /orders"
        a == auth(creds)
    IN  IF a.status # 0 THEN Denied401(route, creds, a)
        ELSE IF staff(a.user) # 0
        THEN DeniedByPolicy(route, creds, "", a.user, "staff", staff(a.user))
        ELSE Unchanged(Reply(route, creds, "", Absent, 200,
                             [rows |-> arrangement], a.user, "handler",
                             <<"findAll">>))

\* GET /orders/:id: [auth, staff], validate(orderIdParam, {source: 'params'})
ordersGet(creds, idParam) ==
    LET route == "GET /orders/:id"
        a == auth(creds)
        checked == validate(orderIdParam, [id |-> idParam])
        found == findByPk("Order", checked.value.id)
    IN  IF a.status # 0 THEN Denied401(route, creds, a)
        ELSE IF staff(a.user) # 0
        THEN DeniedByPolicy(route, creds, "", a.user, "staff", staff(a.user))
        ELSE IF checked.error
        THEN Unchanged(Reply(route, creds, idParam, Absent, 400, as400, a.user,
                             "validate", <<>>))
        ELSE IF found = {}
        THEN Unchanged(Reply(route, creds, idParam, Absent, 404,
                             [msg |-> "Order not found"], a.user, "handler",
                             <<"findByPk">>))
        ELSE Unchanged(Reply(route, creds, idParam, Absent, 200,
                             CHOOSE r \in found : TRUE, a.user, "handler",
                             <<"findByPk">>))

\* DELETE /orders/:id guarded by [auth, staff]
ordersDelete_StaffGuard(creds, idParam) ==
    LET route == "DELETE /orders/:id"
        a == auth(creds)
        checked == validate(orderIdParam, [id |-> idParam])
        found == findByPk("Order", checked.value.id)
    IN  IF a.status # 0 THEN Denied401(route, creds, a)
        ELSE IF staff(a.user) # 0
        THEN DeniedByPolicy(route, creds, "", a.user, "staff", staff(a.user))
        ELSE IF checked.error
        THEN Unchanged(Reply(route, creds, idParam, Absent, 400, as400, a.user,
                             "validate", <<>>))
        ELSE IF found = {}
        THEN Unchanged(Reply(route, creds, idParam, Absent, 404,
                             [msg |-> "Order not found"], a.user, "handler",
                             <<"destroy">>))
        ELSE Outcome(Reply(route, creds, idParam, Absent, 204, Absent, a.user,
                           "handler", <<"destroy">>),
                     [db EXCEPT !.Order = @ \ found], seq, issued)

\* GET /orders/o/:field/:dir: [auth, staff], validate(orderSortParams, params)
ordersSort(creds, params, arrangement) ==
    LET route == "GET /orders/o/:field/:dir"
        a == auth(creds)
        checked == validate(orderSortParams, params)
    IN  IF a.status # 0 THEN Denied401(route, creds, a)
        ELSE IF staff(a.user) # 0
        THEN DeniedByPolicy(route, creds, "", a.user, "staff", staff(a.user))
        ELSE IF checked.error
        THEN Unchanged(Reply(route, creds, "", params, 400, as400, a.user,
                             "validate", <<>>))
        ELSE sorted("Order", route, creds, params, a.user,
                    OneField(checked.value), arrangement)

\* GET /orders/sort/two/:first/:second: [auth, staff],
\* validate(orderTwoSortParams, params)
ordersSortTwo(creds, params, arrangement) ==
    LET route == "GET /orders/sort/two/:first/:second"
        a == auth(creds)
        checked == validate(orderTwoSortParams, params)
    IN  IF a.status # 0 THEN Denied401(route, creds, a)
        ELSE IF staff(a.user) # 0
        THEN DeniedByPolicy(route, creds, "", a.user, "staff", staff(a.user))
        ELSE IF checked.error
        THEN Unchanged(Reply(route, creds, "", params, 400, as400, a.user,
                             "validate", <<>>))
        ELSE sorted("Order", route, creds, params, a.user,
                    TwoFields(checked.value), arrangement)

\* DELETE /orders/:id: [auth, admin], validate(orderIdParam, {source: 'params'})
ordersDelete(creds, idParam) ==
    LET route == "DELETE /orders/:id"
        a == auth(creds)
        checked == validate(orderIdParam, [id |-> idParam])
        found == findByPk("Order", checked.value.id)
    IN  IF a.status # 0 THEN Denied401(route, creds, a)
        ELSE IF admin(a.user) # 0
        THEN DeniedByPolicy(route, creds, "", a.user, "admin", admin(a.user))
        ELSE IF checked.error
        THEN Unchanged(Reply(route, creds, idParam, Absent, 400, as400, a.user,
                             "validate", <<>>))
        ELSE IF found = {}
        THEN Unchanged(Reply(route, creds, idParam, Absent, 404,
                             [msg |-> "Order not found"], a.user, "handler",
                             <<"destroy">>))
        ELSE Outcome(Reply(route, creds, idParam, Absent, 204, Absent, a.user,
                           "handler", <<"destroy">>),
                     [db EXCEPT !.Order = @ \ found], seq, issued)

(***************************************************************************)
(* Request inputs.                                                         *)
(***************************************************************************)
Ada == <<"A", "d", "a">>
EmailA == <<"a", "d", "a", "@", "x", ".", "c", "o">>
\* the same address as a client may type it
EmailARaw == <<" ", "A", "d", "a", "@", "X", ".", "c", "o">>
EmailB == <<"b", "o", "@", "x", ".", "c", "o">>
NotAnEmail == <<"a", "d", "a">>
Pw1 == <<"S", "t", "r", "0", "n", "g", "!", "P">>
Pw2 == <<"P", "a", "s", "s", "w", "0", "r", "#">>
WeakPw == <<"a", "b", "c">>

RegisterBodies ==
    {[name |-> Ada, email |-> EmailARaw, password |-> Pw1],
     [name |-> Ada, email |-> EmailB, password |-> Pw1],
     [name |-> Ada, email |-> NotAnEmail, password |-> WeakPw]}

LoginBodies ==
    {[email |-> EmailARaw, password |-> Pw1],
     [email |-> EmailA, password |-> Pw2],
     [email |-> EmailB, password |-> Pw1],
     [email |-> EmailB]}

CustomerUpdateBodies ==
    {[email |-> EmailARaw],
     [password |-> Pw2, role |-> "admin"],
     [role |-> "admin"]}

Lens == <<"L", "e", "n", "s">>

ProductBodies ==
    {[name |-> Lens, price |-> 199990, stock |-> 5],
     [name |-> Lens, price |-> 4, stock |-> 5]}

ProductUpdateBodies == {[price |-> 19996], [stock |-> 0 - 1]}

\* sort parameters: fields of the orders allow-list, a product column and an
\* order column outside it; directions in both cases, and a word
SortFields == {"total", "createdAt", "price", "custId"}
SortDirs == {<<"a", "s", "c">>, DESC, <<"u", "p">>}
SortParams == [field : SortFields, dir : SortDirs]
SortTwoParams == [first : SortFields, second : {"orderId", "price"}]

\* what a sort query may return for the parameters as sent; a query that
\* fails returns nothing, and the handler then reads no rows
Returned(m, order) ==
    IF findAllOrdered(m, order) = {} THEN {<<>>} ELSE findAllOrdered(m, order)

\* path parameters: the decimal forms of 1..MaxId, and a word
IdParams == {ToString(n) : n \in 1..MaxId} \cup {"abc"}

\* tokens not signed by signToken.  The first three are what the verifier
\* must refuse; the others carry the server's secret (it is the published
\* default when JWT_SECRET is not set, and models/index.js keeps a second
\* signer, Customer.prototype.signToken, that signs bare payloads)
NeverExpires == MaxTime + 1

AdminClaims ==
    [custId |-> NoId, staffId |-> NoId, adminId |-> 1, name |-> Ada,
     email |-> EmailA, role |-> "admin"]

StandardClaims(iss, aud) ==
    [user |-> AdminClaims, exp |-> NeverExpires, iss |-> iss, aud |-> aud]

WrongSecretToken ==
    [alg |-> "HS512", key |-> "not-the-secret",
     payload |-> StandardClaims(JWT_ISSUER, JWT_AUDIENCE)]

WrongAlgToken ==
    [alg |-> "HS256", key |-> VerifySecret,
     payload |-> StandardClaims(JWT_ISSUER, JWT_AUDIENCE)]

UnsignedToken ==
    [alg |-> "none", key |-> "",
     payload |-> StandardClaims(JWT_ISSUER, JWT_AUDIENCE)]

WrongIssuerToken ==
    [alg |-> "HS512", key |-> VerifySecret,
     payload |-> StandardClaims("other-issuer", JWT_AUDIENCE)]

WrongAudienceToken ==
    [alg |-> "HS512", key |-> VerifySecret,
     payload |-> StandardClaims(JWT_ISSUER, "other-audience")]

\* a bare payload that names no role, of the shape
\* Customer.prototype.signToken signs ({custId, role})
RolelessToken ==
    [alg |-> "HS512", key |-> VerifySecret,
     payload |-> [custId |-> 2, exp |-> NeverExpires]]

ForeignTokens ==
    {WrongSecretToken, WrongAlgToken, UnsignedToken, WrongIssuerToken,
     WrongAudienceToken, RolelessToken}

\* the credentials a request may carry
Credentials == {NoCreds} \cup {Bearer(t) : t \in issued \cup ForeignTokens}

(***************************************************************************)
(* Actions.                                                                *)
(***************************************************************************)
NoExchange == Reply("", NoCreds, "", Absent, 0, Absent, Absent, "", <<>>)

\* the requests whose handlers are under way at the same time, each between
\* two of its store operations (Express runs a handler up to its next await)
Slots == {1, 2}

\* a slot in which no request has been taken up
Free == [pc |-> "free", q |-> Absent, answer |-> NoExchange]

\* no exchange is under way: a request is taken up when the last one has ended
Idle == resp = NoExchange

\* the operation of a request takes effect unless it would leave the bounds
\* of the model
Apply(operation) ==
    \E o \in {operation} :
        /\ \A m \in DOMAIN seq : o.seq[m] <= MaxId
        /\ o.db # db => writes < MaxWrites
        /\ o.issued # issued =>
              Cardinality(issued) < Cardinality(SeedTokens) + MaxTokens
        /\ resp' = o.resp
        /\ db' = o.db
        /\ seq' = o.seq
        /\ issued' = o.issued
        /\ writes' = IF o.db # db THEN writes + 1 ELSE writes
        /\ UNCHANGED <<env, now, inflight>>

Register ==
    /\ Idle
    /\ \E v \in Variants, body \in RegisterBodies, salt \in Salts :
          Apply(register(v, body, salt))

Login ==
    /\ Idle
    /\ \E v \in Variants, body \in LoginBodies :
          Apply(login(v, body))

CustomersList ==
    /\ Idle
    /\ \E creds \in Credentials :
          Apply(customersList(creds))

CustomersGet ==
    /\ Idle
    /\ \E creds \in Credentials, id \in IdParams :
          Apply(customersGet(creds, id))

CustomersCreate ==
    /\ Idle
    /\ \E creds \in Credentials, body \in RegisterBodies, salt \in Salts :
          Apply(customersCreate(creds, body, salt))

CustomersUpdate ==
    /\ Idle
    /\ \E creds \in Credentials, id \in IdParams,
          body \in CustomerUpdateBodies, salt \in Salts :
          Apply(customersUpdate(creds, id, body, salt))

CustomersDelete ==
    /\ Idle
    /\ \E creds \in Credentials, id \in IdParams :
          Apply(customersDelete(creds, id))

ProductsList ==
    /\ Idle
    /\ \E creds \in Credentials :
          Apply(productsList(creds))

ProductsGet ==
    /\ Idle
    /\ \E id \in IdParams :
          Apply(productsGet(id))

ProductsCreate ==
    /\ Idle
    /\ \E creds \in Credentials, body \in ProductBodies :
          Apply(productsCreate(creds, body))

ProductsUpdate ==
    /\ Idle
    /\ \E creds \in Credentials, id \in IdParams, body \in ProductUpdateBodies :
          Apply(productsUpdate(creds, id, body))

ProductsDelete ==
    /\ Idle
    /\ \E creds \in Credentials, id \in IdParams :
          Apply(productsDelete(creds, id))

OrdersList ==
    /\ Idle
    /\ \E creds \in Credentials, arrangement \in Arrangements(db.Order) :
          Apply(ordersList(creds, arrangement))

OrdersGet ==
    /\ Idle
    /\ \E creds \in Credentials, id \in IdParams :
          Apply(ordersGet(creds, id))

OrdersDelete ==
    /\ Idle
    /\ \E creds \in Credentials, id \in IdParams :
          Apply(ordersDelete(creds, id))

OrdersSort ==
    /\ Idle
    /\ \E creds \in Credentials, params \in SortParams :
          \E arrangement \in Returned("Order", OneField(params)) :
              Apply(ordersSort(creds, params, arrangement))

OrdersSortTwo ==
    /\ Idle
    /\ \E creds \in Credentials, params \in SortTwoParams :
          \E arrangement \in Returned("Order", TwoFields(params)) :
              Apply(ordersSortTwo(creds, params, arrangement))

ProductsSort ==
    /\ Idle
    /\ \E params \in SortParams :
          \E arrangement \in Returned("Product", OneField(params)) :
              Apply(productsSort(params, arrangement))

ProductsSortTwo ==
    /\ Idle
    /\ \E params \in SortTwoParams :
          \E arrangement \in Returned("Product", TwoFields(params)) :
              Apply(productsSortTwo(params, arrangement))

\* res.json / res.send: the answer is written and the exchange ends
Respond ==
    /\ resp # NoExchange
    /\ resp' = NoExchange
    /\ UNCHANGED <<env, now, db, seq, issued, writes, inflight>>

\* time passes between requests
Tick ==
    /\ Idle
    /\ now < MaxTime
    /\ now' = now + 1
    /\ UNCHANGED <<env, db, seq, issued, writes, resp, inflight>>

\* The process starts on a database that earlier runs have filled (or on
\* the empty one that sync() creates) and with the tokens those runs signed
\* still in the hands of their principals.
Init ==
    /\ env \in Environments
    /\ now = 0
    /\ \/ /\ db = SeedDb
          /\ seq = [m \in DOMAIN SeedDb |-> Cardinality(SeedDb[m])]
          /\ issued = SeedTokens
       \/ /\ db = [m \in DOMAIN SeedDb |-> {}]
          /\ seq = [m \in DOMAIN SeedDb |-> 0]
          /\ issued = {}
    /\ writes = 0
    /\ resp = NoExchange
    /\ inflight = [s \in Slots |-> Free]

Next ==
    \/ Register
    \/ Login
    \/ CustomersList
    \/ CustomersGet
    \/ CustomersCreate
    \/ CustomersUpdate
    \/ CustomersDelete
    \/ ProductsList
    \/ ProductsGet
    \/ ProductsCreate
    \/ ProductsUpdate
    \/ ProductsDelete
    \/ ProductsSort
    \/ ProductsSortTwo
    \/ OrdersList
    \/ OrdersGet
    \/ OrdersDelete
    \/ OrdersSort
    \/ OrdersSortTwo
    \/ Respond
    \/ Tick

Spec == Init /\ [][Next]_vars

(***************************************************************************)
(* A store that can fail.  Every handler awaits its store operations       *)
(* inside try { } and answers from catch (err): the operation that throws  *)
(* is the last one the request issues.                                     *)
(***************************************************************************)
\* the errors a store operation may throw
StoreErrors == {"SequelizeConnectionError"}

\* serverError(res, label, err) of routes/auth.js
serverError == [errors |-> <<[msg |-> "Server Error"]>>]

\* the routes of routes/auth.js
AuthRoutes ==
    {"POST /auth/" \o v \o a : v \in Variants, a \in {"/register", "/login"}}

\* a catch block that issues the failed operation once more
Caught_Retries(o, k, err) ==
    [o EXCEPT !.resp = [failed |-> [at |-> k, error |-> err]]
                       @@ [o.resp EXCEPT !.status = 500, !.out = ServerError,
                                         !.ops = SubSeq(@, 1, k) \o <<@[k]>>],
              !.db = db, !.seq = seq, !.issued = issued]

\* the outcome of the request whose outcome on a healthy store is o, when
\* its k-th store operation throws err: the operations before it have taken
\* effect (an update that was followed by the re-read), the catch block
\* logs err and answers 500 with its fixed body, no token is signed
Caught(o, k, err) ==
    [o EXCEPT !.resp = [failed |-> [at |-> k, error |-> err]]
                       @@ [o.resp EXCEPT
                              !.status = 500,
                              !.out = IF o.resp.route \in AuthRoutes
                                      THEN serverError ELSE ServerError,
                              !.ops = SubSeq(@, 1, k)],
              !.db = IF k > 1 /\ o.resp.ops[1] = "update" THEN o.db ELSE db,
              !.seq = seq,
              !.issued = issued]

\* the requests of the routes, with their outcomes on a healthy store
Requests ==
    {register(v, body, salt) :
        v \in Variants, body \in RegisterBodies, salt \in Salts}
    \cup {login(v, body) : v \in Variants, body \in LoginBodies}
    \cup {customersList(creds) : creds \in Credentials}
    \cup {customersGet(creds, id) : creds \in Credentials, id \in IdParams}
    \cup {customersCreate(creds, body, salt) :
            creds \in Credentials, body \in RegisterBodies, salt \in Salts}
    \cup {customersUpdate(creds, id, body, salt) :
            creds \in Credentials, id \in IdParams,
            body \in CustomerUpdateBodies, salt \in Salts}
    \cup {customersDelete(creds, id) : creds \in Credentials, id \in IdParams}
    \cup {productsList(creds) : creds \in Credentials}
    \cup {productsGet(id) : id \in IdParams}
    \cup {productsCreate(creds, body) :
            creds \in Credentials, body \in ProductBodies}
    \cup {productsUpdate(creds, id, body) :
            creds \in Credentials, id \in IdParams, body \in ProductUpdateBodies}
    \cup {productsDelete(creds, id) : creds \in Credentials, id \in IdParams}
    \cup {ordersGet(creds, id) : creds \in Credentials, id \in IdParams}
    \cup {ordersDelete(creds, id) : creds \in Credentials, id \in IdParams}

\* a request during which a store operation throws
StoreFails ==
    /\ Idle
    /\ \E o \in Requests, err \in StoreErrors :
          \E k \in 1..Len(o.resp.ops) :
              Apply(Caught(o, k, err))

NextFaulty == Next \/ StoreFails

SpecFaulty == Init /\ [][NextFaulty]_vars

(***************************************************************************)
(* Handlers that overlap.  A handler is not atomic: between two awaited    *)
(* store operations another request's operation may run.  The middleware   *)
(* chain of a request touches no store, so a request enters here when it   *)
(* has reached its handler, and then takes one step per store operation.   *)
(***************************************************************************)
\* JSON null: what res.json answers with for a row findByPk did not find
Null == [null |-> TRUE]

\* the handler of a request, as it would run alone on the store as it is
Handle(q) ==
    CASE q.route \in AuthRoutes -> register(q.v, q.body, q.salt)
      [] q.route = "POST /customers" -> customersCreate(q.creds, q.body, q.salt)
      [] q.route = "PUT /customers/:id" ->
            customersUpdate(q.creds, q.id, q.body, q.salt)
      [] q.route = "PUT /products/:id" -> productsUpdate(q.creds, q.id, q.body)
      [] q.route = "DELETE /customers/:id" -> customersDelete(q.creds, q.id)
      [] q.route = "DELETE /products/:id" -> productsDelete(q.creds, q.id)

\* the table a request works on
TableOf(q) ==
    CASE q.route \in AuthRoutes -> ModelOf(q.v)
      [] q.route \in {"POST /customers", "PUT /customers/:id",
                      "DELETE /customers/:id"} -> "Customer"
      [] OTHER -> "Product"

\* the requests that may overlap: registrations and creations, updates and
\* deletions, sent with no token or with one the server signed
OverlapRequests ==
    {[route |-> "POST /auth/" \o v \o "/register", v |-> v, creds |-> NoCreds,
      id |-> "", body |-> body, salt |-> salt] :
        v \in Variants, body \in RegisterBodies, salt \in Salts}
    \cup {[route |-> "POST /customers", v |-> "customer", creds |-> Bearer(t),
           id |-> "", body |-> body, salt |-> salt] :
            t \in issued, body \in RegisterBodies, salt \in Salts}
    \cup {[route |-> "PUT /customers/:id", v |-> "customer", creds |-> Bearer(t),
           id |-> id, body |-> body, salt |-> salt] :
            t \in issued, id \in IdParams, body \in CustomerUpdateBodies,
            salt \in Salts}
    \cup {[route |-> "PUT /products/:id", v |-> "", creds |-> Bearer(t),
           id |-> id, body |-> body, salt |-> 1] :
            t \in issued, id \in IdParams, body \in ProductUpdateBodies}
    \cup {[route |-> route, v |-> "", creds |-> Bearer(t), id |-> id,
           body |-> Absent, salt |-> 1] :
            route \in {"DELETE /customers/:id", "DELETE /products/:id"},
            t \in issued, id \in IdParams}

\* the step of slot s that leaves it at pc with answer, the store as given
Step(s, pc, answer, newDb, newSeq, newIssued) ==
    /\ \A m \in DOMAIN newSeq : newSeq[m] <= MaxId
    /\ inflight' = [inflight EXCEPT ![s].pc = pc, ![s].answer = answer]
    /\ db' = newDb
    /\ seq' = newSeq
    /\ issued' = newIssued
    /\ UNCHANGED <<env, now, writes, resp>>

\* a request passes its middleware chain and reaches its handler, which is
\* about to issue its first store operation
Begin(s) ==
    /\ inflight[s].pc = "free"
    /\ \E q \in OverlapRequests :
          /\ Handle(q).resp.stage = "handler"
          /\ Handle(q).resp.ops # <<>>
          /\ inflight' = [inflight EXCEPT
                             ![s] = [pc |-> Handle(q).resp.ops[1], q |-> q,
                                     answer |-> NoExchange]]
    /\ UNCHANGED <<env, now, db, seq, issued, writes, resp>>

\* await Model.findOne({where: {email}}): 409 when a row is there,
\* otherwise the handler goes on to hash and create
FindOne(s) ==
    /\ inflight[s].pc = "findOne"
    /\ LET h == Handle(inflight[s].q)
       IN  IF h.resp.status = 409
           THEN Step(s, "done", h.resp, db, seq, issued)
           ELSE Step(s, "create", NoExchange, db, seq, issued)

\* await Model.create(...): the unique index on email makes it throw when
\* a row with the email has appeared since the lookup, and the catch block
\* answers 500; otherwise the row is inserted and the handler answers 201
Create(s) ==
    /\ inflight[s].pc = "create"
    /\ LET h == Handle(inflight[s].q)
       IN  IF h.resp.status = 409
           THEN Step(s, "done",
                     Caught([h EXCEPT !.resp.ops = <<"findOne", "create">>], 2,
                            "SequelizeUniqueConstraintError").resp,
                     db, seq, issued)
           ELSE Step(s, "done", h.resp, h.db, h.seq, h.issued)

\* await Model.update(values, {where}): 404 when no row matched, 500 when
\* it throws, otherwise the row is changed and the handler goes on to re-read
Update(s) ==
    /\ inflight[s].pc = "update"
    /\ LET h == Handle(inflight[s].q)
       IN  IF h.resp.status = 200
           THEN Step(s, "findByPk", NoExchange, h.db, seq, issued)
           ELSE Step(s, "done", h.resp, db, seq, issued)

\* const fresh = await Model.findByPk(id); res.status(200).json(fresh)
ReRead(s) ==
    /\ inflight[s].pc = "findByPk"
    /\ LET q == inflight[s].q
           found == findByPk(TableOf(q), toId(q.id))
           fresh == IF found = {} THEN Null
                    ELSE WithoutPassword(CHOOSE r \in found : TRUE)
       IN  Step(s, "done",
                Reply(q.route, q.creds, q.id, q.body, 200, fresh,
                      auth(q.creds).user, "handler", <<"update", "findByPk">>),
                db, seq, issued)

\* await Model.destroy({where}): 204, or 404 when no row matched
Destroy(s) ==
    /\ inflight[s].pc = "destroy"
    /\ LET h == Handle(inflight[s].q)
       IN  Step(s, "done", h.resp, h.db, seq, issued)

NextOverlap ==
    \E s \in Slots :
        \/ Begin(s)
        \/ FindOne(s)
        \/ Create(s)
        \/ Update(s)
        \/ ReRead(s)
        \/ Destroy(s)

SpecOverlap == Init /\ [][NextOverlap]_vars

(***************************************************************************)
(* The route table: which guard stands before which handler.               *)
(***************************************************************************)
StaffRoutes ==
    {"GET /customers", "POST /customers", "GET /products", "GET /orders",
     "GET /orders/:id", "GET /orders/o/:field/:dir",
     "GET /orders/sort/two/:first/:second"}

AdminRoutes ==
    {"DELETE /customers/:id", "POST /products", "PUT /products/:id",
     "DELETE /products/:id", "DELETE /orders/:id"}

SelfOrRoleRoutes == {"GET /customers/:id", "PUT /customers/:id"}

ProtectedRoutes == StaffRoutes \cup AdminRoutes \cup SelfOrRoleRoutes

(***************************************************************************)
(* Properties.  Each is stated over the exchange in resp (the request as   *)
(* it was sent and the answer it got) and the store.                       *)
(***************************************************************************)
\* the token the request in resp presented (Absent when it carried none)
Presented == TokenOf(resp.creds)

\* a token made with the signer's key and algorithm
CorrectlySigned(t) == t.alg = "HS512" /\ t.key = JWT_SECRET

\* the role an authenticated context names, Undefined when it names none
RoleOf(user) == IF "role" \in DOMAIN user THEN user.role ELSE Undefined

\* the customer identifier an authenticated context names
OwnId(user) == IF "custId" \in DOMAIN user THEN user.custId ELSE NoId

\* the request in resp passed the verifier on a self-or-role route
OnSelfOrRole == resp.route \in SelfOrRoleRoutes /\ resp.stage # "auth"

\* the request in resp names the caller's own customer identifier
IsSelf == OwnId(resp.user) # NoId /\ resp.id = ToString(OwnId(resp.user))

\* a request for somebody else's row by a caller whose role is excluded is
\* answered 403 by the guard, before any store operation
OthersForbidden ==
    OnSelfOrRole /\ ~IsSelf /\ RoleOf(resp.user) \notin {"staff", "admin"} =>
        resp.status = 403 /\ resp.stage = "policy" /\ resp.ops = <<>>

\* whether the body of the PUT in resp can be applied to the caller's row
BodyApplies ==
    LET checked == validate(customerUpdate, resp.body)
    IN  /\ ~checked.error
        /\ "email" \in DOMAIN checked.value =>
              ~\E r \in db.Customer :
                    r.custId # OwnId(resp.user) /\ r.email = checked.value.email

\* C1 (as amended): on GET and PUT /customers/:id a caller with a valid token
\* whose role is not staff or admin and whose :id is not its own customer
\* identifier gets 403 without any store access; a caller whose :id is its
\* own customer identifier is never stopped by the guard, whatever its role,
\* and gets 200 exactly when its row exists and, for PUT, the body is valid
\* and its email is not the email of another customer.
C1_SelfOrRole ==
    /\ OthersForbidden
    /\ OnSelfOrRole /\ IsSelf =>
          /\ resp.stage # "policy"
          /\ resp.status # 403
          /\ resp.status = 200 <=>
                /\ \E r \in db.Customer : r.custId = OwnId(resp.user)
                /\ resp.route = "PUT /customers/:id" => BodyApplies

\* C1 witness: a customer updated its own row
C1_Witness ==
    /\ resp.route = "PUT /customers/:id"
    /\ resp.stage = "handler"
    /\ IsSelf
    /\ RoleOf(resp.user) = "customer"
    /\ resp.status = 200

\* C1 as stated: ... and a request where :id equals the caller's own
\* identifier yields 200 regardless of the caller's role (read for a token
\* the server signed and, for PUT, a body that passes validation).
C1_AsStated ==
    /\ OthersForbidden
    /\ (/\ OnSelfOrRole /\ IsSelf /\ Presented \in issued
        /\ resp.route = "PUT /customers/:id" =>
              ~validate(customerUpdate, resp.body).error) =>
          resp.status = 200

\* C2: the staff guard lets a request through exactly when the role of the
\* authenticated context is staff or admin, the admin guard exactly when it
\* is admin; each answers 401 when the context names no role and 403 when it
\* names a role that is not allowed, and a denied request reaches no handler
\* (no store operation is issued).
C2_RoleGuards ==
    resp.stage # "auth" =>
        LET role == RoleOf(resp.user)
            denial == IF role = Undefined THEN 401 ELSE 403
        IN  /\ resp.route \in StaffRoutes =>
                  /\ role \in {"staff", "admin"} <=> resp.stage # "policy"
                  /\ resp.stage = "policy" =>
                        resp.status = denial /\ resp.ops = <<>>
            /\ resp.route \in AdminRoutes =>
                  /\ role = "admin" <=> resp.stage # "policy"
                  /\ resp.stage = "policy" =>
                        resp.status = denial /\ resp.ops = <<>>

\* C2 witness: a verified token that names no role was answered 401 by the
\* admin guard
C2_Witness ==
    /\ resp.route \in AdminRoutes
    /\ resp.stage = "policy"
    /\ RoleOf(resp.user) = Undefined
    /\ resp.status = 401

\* some row of table m is gone in the next state
Deleted(m) == \E r \in db[m] : \A n \in db'[m] : n[Pk(m)] # r[Pk(m)]

C4_ForgedRejected ==
    resp.route \in ProtectedRoutes /\ Presented # Absent
        /\ ~CorrectlySigned(Presented) =>
            resp.status = 401 /\ resp.stage = "auth" /\ resp.user = Absent

\* C4 witness: a token of algorithm HS256 made with the server's key was
\* refused
C4_Witness ==
    /\ resp.route \in ProtectedRoutes
    /\ Presented # Absent
    /\ Presented.alg = "HS256"
    /\ Presented.key = JWT_SECRET
    /\ resp.status = 401

\* C5: on every protected route a token signed by the server is answered 401
\* when it is presented at or after its issuance time plus the configured
\* lifetime.
C5_ExpiredRejected ==
    resp.route \in ProtectedRoutes /\ Presented \in issued
        /\ now >= Presented.payload.iat + JWT_EXPIRES_IN =>
            resp.status = 401 /\ resp.stage = "auth"

\* C5 witness: a token the server signed was refused after its lifetime
C5_Witness ==
    /\ resp.route \in ProtectedRoutes
    /\ Presented \in issued
    /\ now >= Presented.payload.iat + JWT_EXPIRES_IN
    /\ resp.status = 401

\* C6 as stated: in every configuration a correctly signed, unexpired token
\* whose issuer or audience claim differs from the issuer or audience the
\* server signs with is answered 401 by the verifier.
C6_IssuerAudienceChecked ==
    resp.route \in ProtectedRoutes /\ Presented # Absent
        /\ CorrectlySigned(Presented)
        /\ now < Presented.payload.exp
        /\ {"iss", "aud"} \subseteq DOMAIN Presented.payload
        /\ (Presented.payload.iss # JWT_ISSUER \/ Presented.payload.aud # JWT_AUDIENCE) =>
            resp.status = 401 /\ resp.stage = "auth"

\* C7: a token the server signed is accepted by the verifier at every time
\* before its expiry, whatever has happened to the store since (the
\* verifier reads the token only), and the context it sets is the user of
\* the token.
C7_NoRevocation ==
    resp.route \in ProtectedRoutes /\ Presented \in issued
        /\ now < Presented.payload.exp =>
            resp.stage # "auth" /\ resp.user = Presented.payload.user

\* C7 witness: the token of a customer whose row has been deleted passed the
\* verifier
C7_Witness ==
    /\ resp.route \in ProtectedRoutes
    /\ Presented \in issued
    /\ resp.stage # "auth"
    /\ OwnId(resp.user) # NoId
    /\ ~\E r \in db.Customer : r.custId = OwnId(resp.user)

\* the email of the register request in resp, as the store keeps emails
RegisteredEmail == toLowerCase(trim(resp.body.email))

\* C8: a step that handles a valid registration for variant v answers 409
\* and leaves the store as it is when a row of v already holds the email,
\* and otherwise answers 201 and adds exactly one row with that email to the
\* table of v, whatever the tables of the other variants hold.
C8_PerVariantRegistration ==
    [][\A v \in Variants :
          (resp' # resp /\ resp'.route = "POST /auth/" \o v \o "/register"
             /\ resp'.stage = "handler") =>
              LET m == ModelOf(v)
                  email == RegisteredEmail'
              IN  IF \E r \in db[m] : r.email = email
                  THEN resp'.status = 409 /\ db' = db /\ seq' = seq
                  ELSE /\ resp'.status = 201
                       /\ \E row \in db'[m] :
                             /\ row.email = email
                             /\ row \notin db[m]
                             /\ db' = [db EXCEPT ![m] = @ \cup {row}]]_vars

\* C8 witness: an email held by a row of another variant was registered
C8_Witness ==
    /\ resp.route = "POST /auth/customer/register"
    /\ resp.status = 201
    /\ \E r \in db.Staff : r.email = RegisteredEmail

\* C9: in every state no two rows of a principal table hold the same email
\* compared without case and surrounding blanks, and every stored email is
\* trimmed and lower-cased.
C9_EmailUnique ==
    \A v \in Variants :
        /\ \A r \in db[ModelOf(v)] : r.email = toLowerCase(trim(r.email))
        /\ \A r1, r2 \in db[ModelOf(v)] :
              toLowerCase(trim(r1.email)) = toLowerCase(trim(r2.email)) => r1 = r2

\* C9 witness: with two customers stored, an update that would give one the
\* email of the other (typed in another case) was refused
C9_Witness ==
    /\ Cardinality(db.Customer) = 2
    /\ resp.route = "PUT /customers/:id"
    /\ resp.stage = "handler"
    /\ resp.status = 500
    /\ resp.body = [email |-> EmailARaw]

\* whether a record carries a password field
HasPassword(rec) == "password" \in DOMAIN rec

\* C10: no answer of the register, login and customer endpoints carries a
\* password or a password hash: not the body itself, not its user, not a row
\* of its list, not the payload of its token.
C10_NoPasswordInResponses ==
    LET out == resp.out
    IN  /\ ~HasPassword(out)
        /\ "user" \in DOMAIN out => ~HasPassword(out.user)
        /\ "token" \in DOMAIN out =>
              ~HasPassword(out.token.payload) /\ ~HasPassword(out.token.payload.user)
        /\ "rows" \in DOMAIN out =>
              \A i \in DOMAIN out.rows : ~HasPassword(out.rows[i])

\* C10 witness: a customer was created by POST /customers; the stored row
\* holds the hash, the answer is that row
C10_Witness ==
    /\ resp.route = "POST /customers"
    /\ resp.status = 201
    /\ \E r \in db.Customer : HasPassword(r) /\ r.custId = resp.out.custId

\* the email of a login body as the store keeps emails
LoginEmail(body) == toLowerCase(trim(body.email))

\* login bodies that pass validation
ValidLogins == {b \in LoginBodies : DOMAIN b = {"email", "password"}}

\* a login body whose email no row of variant v holds
UnknownEmail(v, b) == ~\E r \in db[ModelOf(v)] : r.email = LoginEmail(b)

\* a login body whose email a row of variant v holds, with another password
WrongPassword(v, b) ==
    \E r \in db[ModelOf(v)] :
        r.email = LoginEmail(b) /\ ~bcryptCompare(b.password, r.password)

\* C11: whenever a request can be taken up, for each variant, the answer to
\* a login with an email no row holds and the answer to a login with a registered email and
\* a wrong password have the same status, 400, and the same body.
C11_LoginIndistinguishable ==
    \A v \in Variants : \A b1, b2 \in ValidLogins :
        Idle /\ UnknownEmail(v, b1) /\ WrongPassword(v, b2) =>
            /\ login(v, b1).resp.status = 400
            /\ login(v, b2).resp.status = 400
            /\ login(v, b1).resp.out = login(v, b2).resp.out
            /\ login(v, b1).db = db /\ login(v, b2).db = db

\* C11 witness: a login with a registered email and a wrong password was
\* answered while another email is not registered on that variant
C11_Witness ==
    \E v \in Variants :
        /\ resp.route = "POST /auth/" \o v \o "/login"
        /\ resp.stage = "handler"
        /\ resp.status = 400
        /\ WrongPassword(v, resp.body)
        /\ \E b \in ValidLogins : UnknownEmail(v, b)

\* the variant whose register or login route answered resp with a token
Issuing(v) ==
    /\ resp.route \in {"POST /auth/" \o v \o "/register",
                       "POST /auth/" \o v \o "/login"}
    /\ resp.status \in {200, 201}

\* C12: the token a register or login route of variant v answers with
\* carries role v in its user claim, has among custId, staffId and adminId
\* exactly the identifier of variant v set, to the key of a stored row of v,
\* and its subject is that identifier as a decimal string.
C12_TokenClaims ==
    \A v \in Variants :
        Issuing(v) =>
            LET payload == resp.out.token.payload
                user == payload.user
                pk == Pk(ModelOf(v))
            IN  /\ resp.out.token \in issued
                /\ user.role = v
                /\ {k \in {"custId", "staffId", "adminId"} : user[k] # NoId} = {pk}
                /\ \E r \in db[ModelOf(v)] : r[pk] = user[pk] /\ r.email = user.email
                /\ payload.sub = ToString(user[pk])
                /\ resp.out.user = user

\* C12 witness: an admin logged in
C12_Witness ==
    /\ resp.route = "POST /auth/admin/login"
    /\ resp.status = 200
    /\ resp.out.token.payload.user.adminId # NoId

\* the login that follows the registration answered in resp: same variant,
\* same email and password, nothing in between
LoginAfter(v) == login(v, [email |-> resp.body.email, password |-> resp.body.password])

\* C13: right after a registration answered 201, a login on the same variant
\* with the same email and password is answered 200 with a token that is
\* none of the tokens signed so far and shares its jti with none of them,
\* and with the user claims the registration answered with.
C13_RegisterThenLogin ==
    \A v \in Variants :
        resp.route = "POST /auth/" \o v \o "/register" /\ resp.status = 201 =>
            LET next == LoginAfter(v).resp
            IN  /\ next.status = 200
                /\ next.out.token \notin issued
                /\ \A t \in issued : t.payload.jti # next.out.token.payload.jti
                /\ next.out.user = resp.out.user
                /\ next.out.token.payload.user = resp.out.token.payload.user

\* C13 witness: a registration was answered 201 with a token that is now one
\* of the tokens signed
C13_Witness ==
    /\ resp.route = "POST /auth/staff/register"
    /\ resp.status = 201
    /\ resp.out.token \in issued
    /\ LoginAfter("staff").resp.status = 200

\* the GET /products/:id that follows the exchange in resp, for identifier id
GetAfter(id) == productsGet(CHOOSE p \in IdParams : toId(p) = id).resp

\* C14: right after POST /products answered 201, GET /products/:id with the
\* created identifier answers 200 with the created name, price and stock;
\* right after DELETE /products/:id answered 204, GET of that identifier
\* answers 404.
C14_ProductRoundTrip ==
    /\ resp.route = "POST /products" /\ resp.status = 201 =>
          /\ GetAfter(resp.out.prodId).status = 200
          /\ GetAfter(resp.out.prodId).out = resp.out
          /\ \A k \in {"name", "price", "stock"} :
                GetAfter(resp.out.prodId).out[k] = JoiValue(productCreate, resp.body)[k]
    /\ resp.route = "DELETE /products/:id" /\ resp.status = 204 =>
          GetAfter(toId(resp.id)).status = 404

\* C14 witness: an admin's POST /products was answered 201 and the product
\* is read back
C14_Witness ==
    /\ resp.route = "POST /products"
    /\ resp.status = 201
    /\ RoleOf(resp.user) = "admin"
    /\ GetAfter(resp.out.prodId).status = 200

\* the delete half of C14 happens as well
C14_DeleteReached ==
    /\ resp.route = "DELETE /products/:id"
    /\ resp.status = 204
    /\ GetAfter(toId(resp.id)).status = 404

OrderSortRoutes ==
    {"GET /orders/o/:field/:dir", "GET /orders/sort/two/:first/:second"}

ProductSortRoutes ==
    {"GET /products/o/:field/:dir", "GET /products/sort/two/:first/:second"}

SortRoutes == OrderSortRoutes \cup ProductSortRoutes

\* the allow-list the sort schemas declare
AllowList == {"orderId", "total", "status", "createdAt"}

\* the field names the sort request in resp carries
FieldsSent ==
    IF "field" \in DOMAIN resp.body
    THEN {resp.body.field}
    ELSE {resp.body.first, resp.body.second}

\* the sort request in resp got as far as validation
SortValidated == resp.route \in SortRoutes /\ resp.stage \in {"validate", "handler"}

C16_ProductSortNever500 ==
    resp.route \in ProductSortRoutes =>
        /\ resp.status \in {200, 400}
        /\ resp.stage = "handler" => FieldsSent \subseteq Columns("Product")

\* the answer of the policy a protected route mounts, for the context and
\* the :id of the request in resp (0 when it lets the request through)
PolicyAnswer ==
    CASE resp.route \in StaffRoutes -> staff(resp.user)
      [] resp.route \in AdminRoutes -> admin(resp.user)
      [] resp.route \in SelfOrRoleRoutes ->
            allowSelfOrRole({"staff", "admin"}, resp.id, resp.user)

\* whether the validate middleware a protected route mounts refuses the
\* request in resp (routes that mount none refuse nothing)
ValidationRefuses ==
    CASE resp.route = "POST /customers" -> validate(customerCreate, resp.body).error
      [] resp.route = "PUT /customers/:id" -> validate(customerUpdate, resp.body).error
      [] resp.route = "POST /products" -> validate(productCreate, resp.body).error
      [] resp.route = "PUT /products/:id" -> validate(productUpdate, resp.body).error
      [] resp.route \in {"GET /orders/:id", "DELETE /orders/:id"} ->
            validate(orderIdParam, [id |-> resp.id]).error
      [] resp.route = "GET /orders/o/:field/:dir" ->
            validate(orderSortParams, resp.body).error
      [] resp.route = "GET /orders/sort/two/:first/:second" ->
            validate(orderTwoSortParams, resp.body).error
      [] OTHER -> FALSE

\* the steps the request in resp went through, in their order
StepsInOrder ==
    resp.route \in ProtectedRoutes =>
        /\ resp.stage \in {"auth", "policy", "validate", "handler"}
        /\ resp.stage = "auth" <=> auth(resp.creds).status # 0
        /\ resp.stage # "auth" =>
              /\ resp.user = auth(resp.creds).user
              /\ resp.stage = "policy" <=> PolicyAnswer # 0
        /\ resp.stage \in {"validate", "handler"} =>
              (resp.stage = "validate" <=> ValidationRefuses)
        /\ resp.ops # <<>> => resp.stage = "handler"
        /\ resp.status \in {401, 403} \/ resp.stage = "validate" => resp.ops = <<>>

\* C17: every request to a protected route is answered by the first step
\* that fails, in the order verify token, check policy, validate, handler:
\* store operations are issued only by a handler, that is after all three
\* checks passed, and a step that answers 401, 403 or a validation 400
\* issues none and leaves every table as it was.
C17_StepOrder ==
    [][/\ StepsInOrder'
       /\ resp'.route \in ProtectedRoutes /\ resp'.stage # "handler" =>
             db' = db /\ seq' = seq]_vars

\* C17 witness: a request to a protected route passed all three checks and
\* its handler wrote to the store
C17_Witness ==
    /\ resp.route = "PUT /products/:id"
    /\ resp.stage = "handler"
    /\ resp.status = 200
    /\ resp.ops = <<"update", "findByPk">>
    /\ auth(resp.creds).status = 0 /\ PolicyAnswer = 0 /\ ~ValidationRefuses

\* a validation 400 on a protected route, after token and policy passed
C17_ValidationReached ==
    /\ resp.route \in ProtectedRoutes
    /\ resp.stage = "validate"
    /\ resp.status = 400
    /\ PolicyAnswer = 0

\* the create, read, update and delete routes of the three resources
ResourceRoutes == ProtectedRoutes \cup {"GET /products/:id"} \cup ProductSortRoutes

\* the request in resp reached its resource handler
ReachedHandler == resp.route \in ResourceRoutes /\ resp.stage = "handler"

\* the store operations of the request in resp that write
WritesIssued == {i \in 1..Len(resp.ops) : resp.ops[i] \in {"create", "update", "destroy"}}

\* C18 (as amended): a request that reaches a resource handler issues at
\* most two store operations, of which at most one writes: none when the
\* handler refuses the :id as not a positive number (400), two when POST
\* /customers creates (findOne, then create) and when a PUT updates (update,
\* then findByPk to re-read), and exactly one in every other case.
C18_StoreOperations ==
    ReachedHandler =>
        /\ Cardinality(WritesIssued) <= 1
        /\ Len(resp.ops) = 0 <=> resp.status = 400
        /\ Len(resp.ops) = 2 <=>
              \/ resp.route = "POST /customers" /\ resp.status = 201
              \/ resp.route \in {"PUT /customers/:id", "PUT /products/:id"}
                    /\ resp.status = 200
        /\ Len(resp.ops) = 2 =>
              resp.ops \in {<<"findOne", "create">>, <<"update", "findByPk">>}
        /\ Len(resp.ops) <= 2

\* C18 witness: POST /customers reached its handler and created a row after
\* looking the email up
C18_Witness ==
    /\ resp.route = "POST /customers"
    /\ resp.stage = "handler"
    /\ resp.status = 201
    /\ resp.ops = <<"findOne", "create">>

\* C18 as stated: every request that reaches a resource handler performs
\* exactly one store operation.
C18_AsStated == ReachedHandler => Len(resp.ops) = 1

\* C19: while JWT_SECRET is not set, no registration and no login answers
\* with a token: nothing is signed without a configured signing secret.
C19_NoTokenWithoutSecret ==
    ~Truthy(env.JWT_SECRET) =>
        \A v \in Variants :
            Issuing(v) => "token" \notin DOMAIN resp.out

\* C20: a DELETE /customers/:id answered 204 removes exactly the customer
\* row it names, and no DELETE /customers/:id changes the order table: the
\* orders of the deleted customer stay.
C20_NoCascade ==
    [][resp'.route = "DELETE /customers/:id" /\ resp' # resp =>
          /\ db'.Order = db.Order
          /\ resp'.status = 204 =>
                db'.Customer = {c \in db.Customer : c.custId # toId(resp'.id)}]_vars

\* the table a list route reads, as the route serialises its rows
Listed(route) ==
    CASE route = "GET /customers" -> {WithoutPassword(r) : r \in db.Customer}
      [] route = "GET /products" -> db.Product
      [] route = "GET /orders" -> db.Order

\* the model behind a list route
ListModel(route) ==
    CASE route = "GET /customers" -> "Customer"
      [] route = "GET /products" -> "Product"
      [] route = "GET /orders" -> "Order"

\* C21: a list route (GET /products, GET /customers, GET /orders) that
\* answers 200 returns all rows of its table in ascending order of the
\* primary key.
C21_ListsOrderedByPk ==
    resp.route \in {"GET /customers", "GET /products", "GET /orders"}
        /\ resp.status = 200 =>
            resp.out.rows = SortByPk(ListModel(resp.route), Listed(resp.route))

\* a store operation of the request in resp has thrown
StoreFailed == "failed" \in DOMAIN resp

\* the values a response body holds, one level deep
ValuesIn(body) ==
    {body[k] : k \in DOMAIN body}
    \cup (IF "errors" \in DOMAIN body
          THEN {body.errors[i].msg : i \in DOMAIN body.errors} ELSE {})

\* C22: when a store operation of a request throws, on any route, the
\* request is answered 500 with the fixed body of its router, which holds
\* nothing of the error; the operation that threw is the last the request
\* issued and was issued once, and the answer carries no token.
C22_StoreFailureIs500 ==
    StoreFailed =>
        /\ resp.status = 500
        /\ resp.out \in {ServerError, serverError}
        /\ resp.failed.error \notin ValuesIn(resp.out)
        /\ Len(resp.ops) = resp.failed.at
        /\ "token" \notin DOMAIN resp.out

\* C22 witness: the re-read of a PUT /customers/:id threw after the update
\* had taken effect
C22_Witness ==
    /\ StoreFailed
    /\ resp.route = "PUT /customers/:id"
    /\ resp.failed.at = 2
    /\ resp.ops = <<"update", "findByPk">>
    /\ resp.status = 500

\* C23: on every route a 500 answer has the body {msg: "Server error"}, and
\* a 401, 403, 404 or 409 answer has a body whose only field is msg.
C23_ErrorBodies ==
    /\ resp.status = 500 => resp.out = ServerError
    /\ resp.status \in {401, 403, 404, 409} => DOMAIN resp.out = {"msg"}

\* the request of slot s has been answered
Answered(s) == inflight[s].pc = "done"

\* slot s holds a request that creates a principal: a registration or a
\* POST /customers
Creates(s) ==
    inflight[s].q # Absent
        /\ inflight[s].q.route \in AuthRoutes \cup {"POST /customers"}

\* the email a create request asks for, as validation hands it on
EmailAsked(s) == toLowerCase(trim(inflight[s].q.body.email))

\* C24: of two answered create requests for the same variant and the same
\* email, handled at the same time, when one was answered 201 the other was
\* answered 409, neither was answered 500, and one row holds the email.
C24_OneCreatedOneConflict ==
    \A s, t \in Slots :
        /\ s # t /\ Answered(s) /\ Answered(t) /\ Creates(s) /\ Creates(t)
        /\ TableOf(inflight[s].q) = TableOf(inflight[t].q)
        /\ EmailAsked(s) = EmailAsked(t)
        /\ inflight[s].answer.status = 201
        => /\ inflight[t].answer.status = 409
           /\ Cardinality(findOne(TableOf(inflight[s].q), EmailAsked(s))) = 1

\* C25: a PUT /customers/:id or PUT /products/:id that was answered 200
\* carries the row it updated in its body, never null, whatever other
\* request ran between its update and its re-read.
C25_UpdateReturnsResource ==
    \A s \in Slots :
        /\ Answered(s)
        /\ inflight[s].q.route \in {"PUT /customers/:id", "PUT /products/:id"}
        /\ inflight[s].answer.status = 200
        => /\ inflight[s].answer.out # Null
           /\ inflight[s].answer.out[Pk(TableOf(inflight[s].q))] = toId(inflight[s].q.id)

\* the PUT /customers/:id in resp was answered 200 and set a password
PasswordChanged ==
    /\ resp.route = "PUT /customers/:id"
    /\ resp.status = 200
    /\ "password" \in DOMAIN resp.body

\* the customer login that follows the exchange in resp
CustomerLoginAfter(email, password) ==
    login("customer", [email |-> email, password |-> password]).resp

\* C26: right after a PUT /customers/:id answered 200 whose body sets the
\* password p2, the row holds a bcrypt hash of p2 and not p2; a customer
\* login with the row's email and p2 is answered 200, and one with the old
\* password p1 # p2 is answered 400.
C26_PasswordRehashed ==
    PasswordChanged =>
        LET row == CHOOSE r \in db.Customer : r.custId = toId(resp.id)
            p2 == resp.body.password
        IN  /\ row.password.digest # p2
            /\ \E salt \in Salts : row.password = bcryptHash(p2, 10, salt)
            /\ CustomerLoginAfter(row.email, p2).status = 200
            /\ \A p1 \in {Pw1, Pw2} \ {p2} :
                  CustomerLoginAfter(row.email, p1).status = 400

\* C26 witness: the seeded customer, registered with Pw1, was given Pw2
C26_Witness ==
    /\ PasswordChanged
    /\ resp.body.password = Pw2
    /\ \E r \in SeedDb.Customer :
          /\ r.custId = toId(resp.id)
          /\ bcryptCompare(Pw1, r.password)
    /\ CustomerLoginAfter(SeedEmailA, Pw2).status = 200

\* C27: whatever JWT_SECRET, JWT_ISSUER and JWT_AUDIENCE are, set or not,
\* every token signToken has signed passes the auth middleware until it
\* expires, in either header, and the context the middleware sets is the
\* user claim that was signed.
C27_IssuedAccepted ==
    \A t \in issued :
        now < t.payload.exp =>
            \A creds \in {Bearer(t), XAuth(t)} :
                /\ auth(creds).status = 0
                /\ auth(creds).user = t.payload.user

\* C27 witness: a token signed in this run, with no variable set, was
\* presented and accepted
C27_Witness ==
    /\ env = [JWT_SECRET |-> "", JWT_ISSUER |-> "", JWT_AUDIENCE |-> ""]
    /\ Presented \in issued \ SeedTokens
    /\ resp.route \in ProtectedRoutes
    /\ resp.stage # "auth"
    /\ resp.user = Presented.payload.user

\* the same with all three variables set
C27_WitnessAllSet ==
    /\ env = [JWT_SECRET |-> "env-secret", JWT_ISSUER |-> "env-issuer",
              JWT_AUDIENCE |-> "env-audience"]
    /\ Presented \in issued \ SeedTokens
    /\ resp.route \in ProtectedRoutes
    /\ resp.stage # "auth"
    /\ resp.user = Presented.payload.user

\* C28: every customer row has role 'customer', whatever the bodies of
\* registration, POST /customers and PUT /customers/:id carried, and a
\* customer login that answers 200 issues a token with role 'customer'.
C28_CustomerRoleFixed ==
    /\ \A r \in db.Customer : r.role = "customer"
    /\ resp.route = "POST /auth/customer/login" /\ resp.status = 200 =>
          /\ resp.out.user.role = "customer"
          /\ resp.out.token.payload.user.role = "customer"

\* C28 witness: a PUT /customers/:id whose body named role 'admin' was
\* answered 200 and changed the row
C28_Witness ==
    /\ resp.route = "PUT /customers/:id"
    /\ resp.status = 200
    /\ "role" \in DOMAIN resp.body
    /\ resp.body.role = "admin"
    /\ db.Customer # SeedDb.Customer
    /\ resp.out.role = "customer"

\* a token the server signed for a customer and that the auth middleware
\* still accepts
ValidCustomerTokens ==
    {t \in issued : /\ auth(Bearer(t)).status = 0
                    /\ auth(Bearer(t)).user.role = "customer"}

\* the customer rows a step inserts: those whose custId no row held before
InsertedCustomers ==
    {r \in db'.Customer : \A o \in db.Customer : o.custId # r.custId}

\* C29: a customer row a step inserts gets a custId above every one handed
\* out before, deleted rows included, so no customer token signed earlier
\* and still accepted passes the self-access branch of allowSelfOrRole for it.
C29_IdsNotReused ==
    [][\A r \in InsertedCustomers :
          /\ r.custId > seq.Customer
          /\ \A t \in ValidCustomerTokens, id \in IdParams :
                toId(id) = r.custId =>
                    allowSelfOrRole({"staff", "admin"}, id,
                                    auth(Bearer(t)).user) = 403]_vars

\* C29 witness: customer 1 was deleted while its token is still accepted,
\* and a customer created afterwards holds custId 2
C29_Witness ==
    /\ \E s \in Slots :
          /\ Answered(s)
          /\ inflight[s].q.route = "DELETE /customers/:id"
          /\ inflight[s].answer.status = 204
    /\ \E s \in Slots :
          /\ Answered(s)
          /\ Creates(s)
          /\ inflight[s].answer.status = 201
    /\ SeedToken("customer", 1) \in ValidCustomerTokens
    /\ db.Customer # {}
    /\ \A r \in db.Customer : r.custId = 2

\* the answer r is that of a PUT /customers/:id that reached Customer.update
\* for an existing row of table and whose validated email another row of
\* table holds
EmailTaken(r, table) ==
    /\ r.route = "PUT /customers/:id"
    /\ r.stage = "handler"
    /\ r.ops # <<>>
    /\ LET value == validate(customerUpdate, r.body).value
       IN  /\ "email" \in DOMAIN value
           /\ \E c \in table : c.custId = toId(r.id)
           /\ \E c \in table : c.custId # toId(r.id) /\ c.email = value.email

\* C30: a PUT /customers/:id that sets the email to one another customer
\* holds is answered 500 with the generic body {msg: 'Server error'}, not
\* 409, and changes no row.
C30_TakenEmailIs500 ==
    [][resp' # resp /\ EmailTaken(resp', db.Customer) =>
          /\ resp'.status = 500
          /\ resp'.out = ServerError
          /\ db' = db]_vars

\* C30 witness: such a request was answered 500 and both customers are
\* stored with different emails
C30_Witness ==
    /\ EmailTaken(resp, db.Customer)
    /\ resp.status = 500
    /\ resp.ops = <<"update">>
    /\ Cardinality(db.Customer) = 2
    /\ \A c, d \in db.Customer : c.email = d.email => c = d

====
